---- MODULE Spec2Model ----
(***************************************************************************)
(* Sentence accumulation and translation dispatch of the Bayaan server.    *)
(*                                                                         *)
(* A text is a sequence of characters, each character a one-element        *)
(* string; the Arabic question mark U+061F is written "U+061F".  The only  *)
(* whitespace character that occurs is the space.                          *)
(***************************************************************************)
EXTENDS FiniteSets, Integers, Sequences, TLC

(***************************************************************************)
(* Bounds of the model.                                                    *)
(***************************************************************************)
\* number of audio tracks that can be subscribed in the room
NumTracks == 2
\* number of FINAL_TRANSCRIPT events the STT stream delivers in one run of a
\* room with a single audio track
MaxEvents == 3
\* number of FINAL_TRANSCRIPT events the STT streams deliver, all together, in
\* one run of a room with several audio tracks
MaxEventsTracks == 2
\* number of times the translation provider raises in one run
MaxFailures == 3
\* number of calls of Translator.translate made by concurrent callers from
\* outside the transcription tasks
MaxDispatches == 2
\* number of calls of Translator.translate made one after the other from
\* outside the transcription tasks
MaxCalls == 5
\* number of calls of translate_sentences made from outside the transcription
\* tasks
MaxGathers == 1
\* number of sentences translated while the sinks may fail
MaxPublished == 2
\* number of calls of the sink functions
MaxDisplays == 2
\* number of times the provider raises in a room with several audio tracks
MaxTrackFailures == 1
\* translate calls made to the translators of a room of any context window
MaxWindowCalls == 4
\* length of the texts extract_complete_sentences is called with by itself
MaxTextLen == 5
\* store_transcript_in_database calls running at the same time
MaxStores == 3
\* calls of create_stream and close_participant_stream for one participant
MaxStreamCalls == 3
\* calls of STTStreamManager.close_all
MaxCloseAll == 2
\* times the heartbeat of the speaker gets older than the timeout
MaxLapses == 2
\* participants that connect to the room
MaxParticipants == 2
\* heartbeats the session-heartbeat tasks send to the database
MaxHeartbeats == 2
\* webhooks the handler receives
MaxWebhooks == 4

(***************************************************************************)
(* Program constants.                                                      *)
(***************************************************************************)
\* translator.py: default of the max_retries parameter of Translate
max_retries == 2
\* translator.py: wait_time = retry_count * 0.5, in tenths of a second
half_second == 5
\* config.py: get_context_window_size keeps a configured size within 3..20
min_context_pairs == 3
largest_context_pairs == 20
\* config.py: TranslationConfig.max_context_pairs
max_context_pairs == 12

Tracks == 1..NumTracks

\* current_sentence_id = None
None == 0

SPACE == " "
ArabicQuestionMark == "U+061F"

\* text_processing.py: sentence_endings
sentence_endings == {".", "!", "?", ArabicQuestionMark}

\* text_processing.py: the completion signal returned for standalone punctuation
PUNCTUATION_COMPLETE == <<"PUNCTUATION_COMPLETE">>

(***************************************************************************)
(* str.strip()                                                             *)
(***************************************************************************)
RECURSIVE LStrip(_)
LStrip(s) ==
    IF s = <<>> THEN <<>>
    ELSE IF Head(s) = SPACE THEN LStrip(Tail(s)) ELSE s

RECURSIVE RStrip(_)
RStrip(s) ==
    IF s = <<>> THEN <<>>
    ELSE IF s[Len(s)] = SPACE THEN RStrip(SubSeq(s, 1, Len(s) - 1)) ELSE s

Strip(s) == RStrip(LStrip(s))

(***************************************************************************)
(* re.split(r'([.!?U+061F])', text): the pieces between the punctuation    *)
(* characters and the punctuation characters themselves, in order; empty   *)
(* pieces are kept.                                                        *)
(***************************************************************************)
RECURSIVE ReSplitFrom(_, _)
ReSplitFrom(text, piece) ==
    IF text = <<>> THEN << piece >>
    ELSE IF Head(text) \in sentence_endings
         THEN << piece, << Head(text) >> >> \o ReSplitFrom(Tail(text), <<>>)
         ELSE ReSplitFrom(Tail(text), Append(piece, Head(text)))

\* a split that finds no punctuation
ReSplitWhole(text) == << text >>

ReSplit(text) == ReSplitFrom(text, <<>>)

(***************************************************************************)
(* The while loop of extract_complete_sentences over parts[i..]: acc holds *)
(* complete_sentences and current_building.                                *)
(***************************************************************************)
RECURSIVE ExtractLoop(_, _, _)
ExtractLoop(parts, i, acc) ==
    IF i > Len(parts) THEN acc
    ELSE LET part == Strip(parts[i]) IN
         IF part = <<>> THEN ExtractLoop(parts, i + 1, acc)
         ELSE IF Len(part) = 1 /\ part[1] \in sentence_endings
              THEN IF Strip(acc.current_building) # <<>>
                   THEN ExtractLoop(parts, i + 1,
                          [complete_sentences |->
                               Append(acc.complete_sentences,
                                      Strip(acc.current_building) \o part),
                           current_building |-> <<>>])
                   ELSE ExtractLoop(parts, i + 1, acc)
              ELSE ExtractLoop(parts, i + 1,
                     [complete_sentences |-> acc.complete_sentences,
                      current_building |->
                          IF acc.current_building # <<>>
                          THEN acc.current_building \o << SPACE >> \o part
                          ELSE part])

\* an extraction that takes standalone punctuation for ordinary text
extract_complete_sentencesSplitsAll(text) ==
    IF Strip(text) = <<>> THEN << <<>>, <<>> >>
    ELSE LET acc == ExtractLoop(ReSplit(text), 1,
                      [complete_sentences |-> <<>>, current_building |-> <<>>])
         IN << acc.complete_sentences, Strip(acc.current_building) >>

\* text_processing.py: extract_complete_sentences; the result is the pair
\* <<complete_sentences, remaining_text>>
extract_complete_sentences(text) ==
    IF Strip(text) = <<>> THEN << <<>>, <<>> >>
    ELSE IF Len(Strip(text)) = 1 /\ Strip(text)[1] \in sentence_endings
         THEN << << PUNCTUATION_COMPLETE >>, <<>> >>
         ELSE LET acc == ExtractLoop(ReSplit(text), 1,
                           [complete_sentences |-> <<>>,
                            current_building |-> <<>>])
              IN << acc.complete_sentences, Strip(acc.current_building) >>


(***************************************************************************)
(* The texts the STT streams deliver as ev.alternatives[0].text.           *)
(***************************************************************************)
FragmentTexts ==
    { << "a" >>,
      << "b" >>,
      << "." >>,
      << SPACE >>,
      << ArabicQuestionMark, "." >>,
      << "a", ".", SPACE, "b", ArabicQuestionMark >>,
      << "a", "!", SPACE, "b" >> }

\* the characters of the texts extract_complete_sentences is called with by
\* itself: a letter, the space, the four sentence endings, and a word that
\* reads PUNCTUATION_COMPLETE
Characters == { "a", SPACE, "PUNCTUATION_COMPLETE" } \cup sentence_endings

ExtractTexts == UNION { [1..n -> Characters] : n \in 0..MaxTextLen }

\* the texts delivered in a room whose provider may fail
SentenceTexts == { << "." >>, << "a", "!", SPACE, "b" >> }

\* the sentences handed to the translators from outside the transcription tasks
WorkerTexts == { << "a" >>, << "b" >>, << SPACE >> }

\* the room ids found in the metadata of the participants
RoomIds == { 1, 2 }

\* the target language the room is configured with, and its translator
TargetLanguages == { "nl" }

\* a language a participant can ask captions for (config.py: supported_languages)
CaptionLanguages == { "en" }

\* the languages a translator can exist for
\* config.py 51: the language the room speaks unless a participant says
\* otherwise
default_source_language == "ar"

\* main.py 84-92: the keys of languages, the supported languages
Languages == TargetLanguages \cup CaptionLanguages \cup { default_source_language }

\* changed_attributes.get(...): no such attribute
NoLanguage == ""

\* the values of the attributes speaking_language and captions_language: a
\* supported language, a language that is not supported, or none
AttributeValues == Languages \cup { "xx", NoLanguage }

VARIABLES
    audioTracks,            \* audio tracks published in the room
    pc,                     \* track -> position of its _forward_transcription task
    final_text,             \* track -> local final_text
    complete_sentences,     \* track -> local complete_sentences
    remaining_text,         \* track -> local remaining_text
    idx,                    \* track -> position of the for loop over complete_sentences
    sentence_id,            \* track -> local sentence_id of the for loop
    ev,                     \* track -> index in received of the event being processed
    accumulated_text,       \* entrypoint: accumulated_text (shared by all tracks)
    last_final_transcript,  \* entrypoint: last_final_transcript
    current_sentence_id,    \* entrypoint: current_sentence_id
    translators,            \* entrypoint: keys of the translators dict
    uuids,                  \* number of uuid4() values generated so far
    tr,                     \* caller -> language -> the translate call gathered for it
    message_history,        \* language -> Translator.message_history
    translation_count,      \* language -> Translator.translation_count
    error_count,            \* language -> Translator.error_count
    prompt_initialized,     \* language -> Translator._prompt_initialized
    system_prompt,          \* language -> Translator.system_prompt: None, or the
                            \*   room_id it was resolved for
    prompt_resolutions,     \* history: language -> number of times system_prompt was set
    prompt_text,            \* language -> the text of Translator.system_prompt
    prompt_template,        \* what query_prompt_template_for_room finds for the room
    context_pairs,          \* language -> Translator.max_context_pairs, None
                            \*   without a translator
    tenant_context,         \* entrypoint: tenant_context, shared with the translators
    dispatched,             \* number of calls made to the translators from outside
                            \*   the transcription tasks
    received,               \* history: the FINAL_TRANSCRIPT events read so far, each
                            \*   with the accumulated_text it met
    failures,               \* number of times the translation provider has raised
    participant_tasks,      \* entrypoint: track -> the transcribe_track task kept
                            \*   for the participant of the track
    shutdown,               \* TaskManager._shutdown
    source_language,        \* entrypoint: source_language
    constructed,            \* history: language -> number of Translator objects
                            \*   constructed for it
    changed_attributes,     \* history: the attributes on_attributes_changed was
                            \*   last called with
    service_role_key,       \* config.supabase.service_role_key is set
    stream_calls,           \* the calls of create_stream and
                            \*   close_participant_stream for the participant:
                            \*   the position of each, the lock it uses and the
                            \*   stream it closes
    locks,                  \* the asyncio.Lock objects made for the participant:
                            \*   the owner of each and the calls waiting for it
    cleanup_locks,          \* STTStreamManager._cleanup_locks[participant_id],
                            \*   None without an entry
    streams,                \* STTStreamManager._streams
    participant_streams,    \* STTStreamManager._participant_streams[participant_id],
                            \*   None without an entry
    participant_disconnect_times,
                            \* _participant_disconnect_times has an entry for
                            \*   the participant
    close_all_calls,        \* the calls of close_all: the position of each and
                            \*   the streams it has still to close
    tasks,                  \* TaskManager._tasks: the tracked task that makes
                            \*   stream call h, its name and how far it is
    participants,           \* HeartbeatMonitor.participants
    active_sessions,        \* WebhookHandler.active_sessions: its entries in
                            \*   the order of their insertion
    webhooks,               \* history: the last two room webhooks handled,
                            \*   each with the keys of active_sessions before it
    handled,                \* history: the number of webhooks handled
    room,                   \* how far the entrypoint and the room are:
                            \*   connecting, connected, disconnected, cleanup
    heartbeat_task,         \* entrypoint: heartbeat_task, the number of the
                            \*   task or None
    session_heartbeat_tasks,\* the tracked tasks named session-heartbeat
    participant_metadata,   \* history: the session_id in the metadata of each
                            \*   participant that connected
    heartbeats,             \* history: the heartbeats sent to the database
    lapsed,                 \* the participants of the heartbeat monitor whose
                            \*   last heartbeat is older than the timeout
    lapses,                 \* how often a heartbeat has got older than that
    monitor_task,           \* HeartbeatMonitor._monitor_task
    timeout_callbacks,      \* participant -> the calls of on_participant_timeout
    shutdown_calls,         \* the calls of ResourceManager.shutdown: the position
                            \*   of each, the tasks it waits for and what
                            \*   verify_cleanup_complete reported after it
    pool_session,           \* database._pool._local.session
    stores,                 \* the calls of store_transcript_in_database: the
                            \*   position of each and its local session_id
    room_sessions,          \* the ids of the active rows of room_sessions the
                            \*   database holds for the room
    transcripts,            \* history: the session_id of each row stored in
                            \*   the table transcripts
    extracted,              \* history: a text, and what extract_complete_sentences
                            \*   returned when it was called with it
    displays,               \* history: the runs of broadcast_to_displays for
                            \*   translations, each with what the sinks answered
    calls                   \* history: calls of broadcast_to_displays / translate_sentences

trackVars == << pc, final_text, complete_sentences, remaining_text, idx,
                sentence_id, ev >>
bufferVars == << accumulated_text, last_final_transcript, current_sentence_id >>
promptVars == << prompt_initialized, system_prompt, prompt_resolutions,
                prompt_text >>
workerVars == << message_history, translation_count, error_count, promptVars >>
sinkVars == << service_role_key, displays, prompt_template >>
databaseVars == << stores, room_sessions, transcripts >>
sttVars == << stream_calls, locks, cleanup_locks, streams, participant_streams,
             participant_disconnect_times, close_all_calls >>
monitorVars == << lapsed, lapses, monitor_task, timeout_callbacks >>
resourceVars == << tasks, participants, shutdown_calls, pool_session, monitorVars >>
connectionVars == << room, heartbeat_task, session_heartbeat_tasks,
                    participant_metadata, heartbeats >>
webhookVars == << active_sessions, webhooks, handled >>
otherVars == << connectionVars, webhookVars >>
serviceVars == << databaseVars, sttVars, resourceVars, otherVars >>
sessionVars == << participant_tasks, shutdown, source_language, constructed,
                 context_pairs, changed_attributes, sinkVars, extracted, serviceVars >>
\* the state of the entrypoint and of the translators
roomVars == << audioTracks, trackVars, bufferVars, translators, uuids, tr,
              workerVars, received, calls, failures, tenant_context,
              dispatched, participant_tasks, source_language,
              constructed, context_pairs, changed_attributes, sinkVars,
              extracted, otherVars >>
entrypointVars == << roomVars, shutdown >>
envVars == << failures, tenant_context, dispatched, sessionVars >>
vars == << audioTracks, trackVars, bufferVars, translators, uuids, tr,
           workerVars, received, envVars, calls >>

\* the number of events the streams of the room deliver
EventBound == IF audioTracks = 1 THEN MaxEvents ELSE MaxEventsTracks

\* a translate call: st is its position, outcomes the results of its provider
\* calls so far, wait_time its last backoff, system_prompt the prompt of its
\* last request, open_streams the provider streams it has opened and not
\* closed, publish_failures the times publish_transcription has raised in it,
\* result what it returned
NoCall ==
    [st |-> "none", message |-> <<>>, sentence_id |-> None, retry_count |-> 0,
     room_id |-> None, system_prompt |-> None, outcomes |-> <<>>,
     wait_time |-> 0, published |-> 0, publish_failures |-> 0, broadcasts |-> 0,
     open_streams |-> 0, result |-> <<>>]

\* tenant_context of a room without a prompt of its own and without a
\* configured context window: has_context_window_size is
\* 'context_window_size' in tenant_context
DefaultContext ==
    [room_id |-> 1, mosque_id |-> 1, session_id |-> 1,
     translation_prompt |-> FALSE, prompt_form |-> "ok",
     has_context_window_size |-> FALSE, context_window_size |-> None]

\* tenant_context of a room configured with a context window
WithWindow(context, size) ==
    [context EXCEPT !.has_context_window_size = TRUE,
                    !.context_window_size = size]

\* config.py 146: max(3, min(20, size))
clamp(size) ==
    IF size > largest_context_pairs THEN largest_context_pairs
    ELSE IF size < min_context_pairs THEN min_context_pairs
    ELSE size

\* config.py 141-147: the number of context pairs of a translator of the
\* room; a size of 0 is false in the condition of line 143
get_context_window_size(room_config) ==
    IF room_config.has_context_window_size /\ room_config.context_window_size # 0
    THEN clamp(room_config.context_window_size)
    ELSE max_context_pairs

(***************************************************************************)
(* Prompts. A template is a text with placeholders: its form says what     *)
(* str.format does with it. A prompt is a text filled with the two         *)
(* languages, each given by its name or by its code.                       *)
(***************************************************************************)
TemplateForms == { "ok", "unknown_placeholder", "bad_format" }

\* the room's template in the database: the query raises, finds none, or
\* finds a template of one of the forms
TemplateStates == { "unavailable", "missing" } \cup TemplateForms

LanguageName(lang) == << "name", lang >>
LanguageValue(lang) == << "value", lang >>

\* translator.py 43-79: a translator without a prompt
NoPrompt == [text |-> "none", source |-> <<>>, target |-> <<>>]

\* str.format(**substitutions) on a template: the filled text, KeyError for a
\* placeholder that is not among the substitutions, ValueError for a string
\* that is not a format string
format(text, form, source, target) ==
    IF form = "unknown_placeholder" THEN [error |-> "KeyError", prompt |-> NoPrompt]
    ELSE IF form = "bad_format" THEN [error |-> "ValueError", prompt |-> NoPrompt]
    ELSE [error |-> "none",
          prompt |-> [text |-> text, source |-> source, target |-> target]]

\* prompt_builder.py 22-27, 94-100: DEFAULT_PROMPT filled with the two names
DefaultPrompt(lang) ==
    format("DEFAULT_PROMPT", "ok", LanguageName(default_source_language),
           LanguageName(lang)).prompt

\* translator.py 200-214: the prompt of the except clause of
\* _initialize_prompt, with self.lang.value as the target
FallbackPrompt(lang) ==
    [text |-> "fallback", source |-> LanguageName(default_source_language),
     target |-> LanguageValue(lang)]

\* prompt_builder.py 33-127: get_prompt_for_room(room_id, source_lang,
\* target_lang) for a translator of language lang, with the template found
\* for the room
get_prompt_for_room(room_id, lang, found) ==
    LET template == IF room_id = None \/ found \in { "unavailable", "missing" }
                    THEN [text |-> "DEFAULT_PROMPT", form |-> "ok"]
                    ELSE [text |-> "template", form |-> found]
        formatted == format(template.text, template.form,
                            LanguageName(default_source_language),
                            LanguageName(lang))
    IN IF formatted.error = "none" THEN formatted.prompt ELSE DefaultPrompt(lang)

\* translator.py 172-187: direct_prompt.format(...) with the two names
DirectPrompt(lang) ==
    format("direct", tenant_context.prompt_form,
           LanguageName(default_source_language), LanguageName(lang))

\* the stand-in for the text the LLM returns for message in language lang
Translation(lang, message) == << lang >> \o message

(***************************************************************************)
(* Records of the calls history.                                           *)
(***************************************************************************)
\* broadcast_to_displays("transcription", source_language, text, tenant_context,
\*                       sentence_context)
TranscriptionCall(t, text, sid, complete) ==
    [fn |-> "broadcast_to_displays", message_type |-> "transcription",
     text |-> text, sentence_id |-> sid,
     is_complete |-> complete, is_fragment |-> ~complete,
     track |-> t, ev |-> ev[t], lang |-> source_language]

\* translate_sentences([text], translators, source_language, sid)
DispatchCall(t, text, sid) ==
    [fn |-> "translate_sentences", message_type |-> "dispatch",
     text |-> text, sentence_id |-> sid,
     is_complete |-> TRUE, is_fragment |-> FALSE,
     track |-> t, ev |-> ev[t], lang |-> source_language]

\* Translator._broadcast_translation: broadcast_callback("translation", ...)
TranslationCall(t, l, text, sid) ==
    [fn |-> "broadcast_to_displays", message_type |-> "translation",
     text |-> text, sentence_id |-> sid,
     is_complete |-> (sid # None), is_fragment |-> FALSE,
     track |-> t, ev |-> ev[t], lang |-> l]

TypeOK ==
    /\ audioTracks \in 1..NumTracks
    /\ pc \in [Tracks -> {"unsubscribed", "idle", "publish_transcription",
                          "broadcast_fragment", "broadcast_punctuation",
                          "translate_punctuation", "broadcast_sentence",
                          "translate_sentence", "cancelled"}]
    /\ participant_tasks \in [Tracks -> {"none", "running", "cancelled", "done"}]
    /\ shutdown \in BOOLEAN
    /\ current_sentence_id \in 0..uuids
    /\ Len(received) <= EventBound

StoreCalls == 1..MaxStores

\* the state of the room and its translators
InitSession(context, key, template, text) ==
    /\ audioTracks \in 1..NumTracks
    /\ pc = [t \in Tracks |-> "unsubscribed"]
    /\ final_text = [t \in Tracks |-> <<>>]
    /\ complete_sentences = [t \in Tracks |-> <<>>]
    /\ remaining_text = [t \in Tracks |-> <<>>]
    /\ idx = [t \in Tracks |-> 0]
    /\ sentence_id = [t \in Tracks |-> None]
    /\ ev = [t \in Tracks |-> 0]
    /\ accumulated_text = <<>>
    /\ last_final_transcript = <<>>
    /\ current_sentence_id = None
    /\ translators = TargetLanguages
    /\ uuids = 0
    /\ tr = [t \in Tracks |-> [l \in Languages |-> NoCall]]
    /\ message_history = [l \in Languages |-> <<>>]
    /\ translation_count = [l \in Languages |-> 0]
    /\ error_count = [l \in Languages |-> 0]
    /\ prompt_initialized = [l \in Languages |-> FALSE]
    /\ system_prompt = [l \in Languages |-> None]
    /\ prompt_resolutions = [l \in Languages |-> 0]
    /\ prompt_text = [l \in Languages |-> NoPrompt]
    /\ prompt_template = template
    /\ tenant_context = context
    /\ dispatched = 0
    /\ received = <<>>
    /\ failures = 0
    /\ participant_tasks = [t \in Tracks |-> "none"]
    /\ shutdown = FALSE
    /\ service_role_key = key
    /\ displays = <<>>
    /\ extracted = [text |-> text, called |-> FALSE,
                    complete_sentences |-> <<>>, remaining_text |-> <<>>]
    /\ source_language = default_source_language
    /\ constructed = [l \in Languages |-> IF l \in TargetLanguages THEN 1 ELSE 0]
    /\ context_pairs = [l \in Languages |->
                           IF l \in TargetLanguages
                           THEN get_context_window_size(context) ELSE None]
    /\ changed_attributes =
           [speaking_language |-> NoLanguage, captions_language |-> NoLanguage]
    /\ calls = <<>>

\* a call of store_transcript_in_database that has not been made
NoStore == [st |-> "none", session_id |-> None, result |-> "none"]

\* the session a room has when the agent joins it, and the sessions of the
\* calls of ensure_active_session (uuid.uuid4(), database.py 115)
ExistingSession == 1
NewSession(p) == ExistingSession + p

\* the database, with the active sessions of the room
InitDatabase(sessions) ==
    /\ stores = [p \in StoreCalls |-> NoStore]
    /\ room_sessions = sessions
    /\ transcripts = <<>>

\* the state of a room created with the tenant context, in a process with or
\* without the service role key; text is a text extract_complete_sentences
\* will be called with by itself
\* resource_management.py 205-213: a new STTStreamManager
StreamCalls == 1..MaxStreamCalls
CloseAllCalls == 1..MaxCloseAll
LockIds == 1..(MaxCloseAll + 1)
NoStreamCall == [kind |-> "none", st |-> "none", lock |-> None, stream |-> None]
NoLock == [made |-> FALSE, owner |-> None, waiters |-> <<>>]
NoCloseAll == [st |-> "none", streams_to_close |-> {}]

InitStreams ==
    /\ stream_calls = [h \in StreamCalls |-> NoStreamCall]
    /\ locks = [g \in LockIds |-> NoLock]
    /\ cleanup_locks = None
    /\ streams = {}
    /\ participant_streams = None
    /\ participant_disconnect_times = FALSE
    /\ close_all_calls = [c \in CloseAllCalls |-> NoCloseAll]

\* resource_management.py 440-445: a new ResourceManager; database.py 56: a
\* pool without a session
NoTask == [st |-> "none", name |-> "none", kept |-> FALSE]
ShutdownCalls == CloseAllCalls
NoVerification == [called |-> FALSE, cleanup_complete |-> FALSE,
                   tasks_remaining |-> {}, streams_remaining |-> {},
                   participants_remaining |-> {}, db_connections_closed |-> FALSE]
NoShutdown == [st |-> "none", caller |-> "none", tasks_to_cancel |-> {},
               verification |-> NoVerification]
Speaker == "speaker"

\* resource_management.py 348-354: a new HeartbeatMonitor; main.py 112-119:
\* the entrypoint makes the ResourceManager and registers its callback
InitMonitor(task) ==
    /\ participants = {}
    /\ lapsed = {}
    /\ lapses = 0
    /\ monitor_task = task
    /\ timeout_callbacks = [p \in { Speaker } |-> 0]

InitResources ==
    /\ tasks = [h \in StreamCalls |-> NoTask]
    /\ InitMonitor("none")
    /\ shutdown_calls = [c \in ShutdownCalls |-> NoShutdown]
    /\ pool_session = "none"

\* main.py 121-122, 692-705: the entrypoint before job.connect has returned,
\* or after it, when it has started the session-heartbeat task of a room
\* whose context has a session_id
InitConnections(position, session_id) ==
    LET started == position = "connected" /\ session_id # None IN
    /\ room = position
    /\ heartbeat_task = IF started THEN 1 ELSE None
    /\ session_heartbeat_tasks = IF started THEN << "running" >> ELSE <<>>
    /\ participant_metadata = <<>>
    /\ heartbeats = 0

\* webhook_handler.py 21-23, 150: the handler of the module, without sessions
InitWebhooks ==
    /\ active_sessions = <<>>
    /\ webhooks = <<>>
    /\ handled = 0

InitConfigured(context, key, template, text) ==
    /\ InitSession(context, key, template, text)
    /\ InitDatabase({})
    /\ InitStreams
    /\ InitResources
    /\ InitConnections("connected", context.session_id)
    /\ InitWebhooks

\* the state of a room created with the tenant context
InitRoom(context) == InitConfigured(context, TRUE, "missing", <<>>)

Init == InitRoom(DefaultContext)

\* a room in which a single participant publishes audio
InitOneTrack == Init /\ audioTracks = 1

\* a room configured with the smallest context window
InitTracks == InitRoom(WithWindow(DefaultContext, min_context_pairs))

\* a room configured with the smallest context window, with or without a
\* prompt of its own
WorkerContexts ==
    { [WithWindow(DefaultContext, min_context_pairs)
           EXCEPT !.translation_prompt = p] : p \in BOOLEAN }

InitWorker == \E context \in WorkerContexts : InitRoom(context) /\ audioTracks = 1

(***************************************************************************)
(* on_track_subscribed / transcribe_track: an audio track gets its own     *)
(* STT stream and its own _forward_transcription task.                     *)
(***************************************************************************)
on_track_subscribed(t) ==
    /\ pc[t] = "unsubscribed"
    /\ t <= audioTracks
    /\ \A u \in Tracks : u < t => pc[u] # "unsubscribed"
    /\ ~shutdown
    /\ pc' = [pc EXCEPT ![t] = "idle"]
    /\ participant_tasks' = [participant_tasks EXCEPT ![t] = "running"]
    /\ UNCHANGED << failures, tenant_context, dispatched, shutdown,
                    source_language, constructed, context_pairs,
                    changed_attributes, sinkVars, extracted, serviceVars >>
    /\ UNCHANGED << audioTracks, final_text, complete_sentences, remaining_text,
                    idx, sentence_id, ev, bufferVars, translators, uuids, tr,
                    workerVars, received, calls >>

(***************************************************************************)
(* _forward_transcription, lines 358-366: the next event of the stream is  *)
(* read; an empty or repeated text is skipped.                             *)
(***************************************************************************)
\* a filter that rejects empty fragments only
AcceptsNonEmpty(text) == text # <<>>

Accepts(text) == text # <<>> /\ text # last_final_transcript

ReceiveFinalTranscript(t, raw) ==
    /\ pc[t] = "idle"
    /\ participant_tasks[t] = "running"
    /\ Len(received) < EventBound
    /\ LET text == Strip(raw) IN
       /\ received' = Append(received,
                         [track |-> t, text |-> text, accepted |-> Accepts(text),
                          pending |-> accumulated_text])
       /\ IF Accepts(text)
          THEN /\ last_final_transcript' = text
               /\ final_text' = [final_text EXCEPT ![t] = text]
               /\ ev' = [ev EXCEPT ![t] = Len(received) + 1]
               /\ pc' = [pc EXCEPT ![t] = "publish_transcription"]
          ELSE UNCHANGED << last_final_transcript, final_text, ev, pc >>
    /\ UNCHANGED envVars
    /\ UNCHANGED << audioTracks, complete_sentences, remaining_text, idx,
                    sentence_id, accumulated_text, current_sentence_id,
                    translators, uuids, tr, workerVars, calls >>

(***************************************************************************)
(* lines 381-404: publish_transcription has returned (or raised, which is  *)
(* caught); a sentence id is generated if there is none and the fragment   *)
(* is broadcast.                                                           *)
(***************************************************************************)
PublishTranscriptionReturns(t) ==
    /\ pc[t] = "publish_transcription"
    /\ LET sid == IF current_sentence_id = None THEN uuids + 1
                  ELSE current_sentence_id IN
       /\ current_sentence_id' = sid
       /\ uuids' = IF current_sentence_id = None THEN uuids + 1 ELSE uuids
       /\ calls' = Append(calls, TranscriptionCall(t, final_text[t], sid, FALSE))
    /\ pc' = [pc EXCEPT ![t] = "broadcast_fragment"]
    /\ UNCHANGED envVars
    /\ UNCHANGED << audioTracks, final_text, complete_sentences, remaining_text,
                    idx, sentence_id, ev, accumulated_text, last_final_transcript,
                    translators, tr, workerVars, received >>

(***************************************************************************)
(* translate_sentences([sentence], translators, ..., sid) as far as its    *)
(* gather: a translate call per translator, or nothing for an empty        *)
(* sentence.                                                               *)
(***************************************************************************)
Dispatches(sentence) == Strip(sentence) # <<>> /\ translators # {}

\* translator.py 96-101: Translator.translate(message, sid) as far as its loop
translate(message, sid) ==
    [NoCall EXCEPT !.st = IF Strip(message) = <<>> THEN "done" ELSE "start",
                   !.message = message,
                   !.sentence_id = sid]

\* a dispatch that leaves out the translators that have failed before
StartGatherSkipsFailed(t, sentence, sid) ==
    [l \in Languages |->
        IF l \in translators /\ error_count[l] = 0
        THEN translate(sentence, sid) ELSE NoCall]

StartGather(t, sentence, sid) ==
    [l \in Languages |->
        IF l \in translators THEN translate(sentence, sid) ELSE NoCall]

\* a dispatch that is not awaited
GatherNotAwaited(t) == TRUE

\* asyncio.gather has collected every translate call of the track
GatherDone(t) == \A l \in Languages : tr[t][l].st \in {"none", "done"}

\* a buffer that keeps the last fragment only
AccumulateReplaces(text) == text

Accumulate(text) ==
    IF accumulated_text # <<>>
    THEN Strip(accumulated_text) \o << SPACE >> \o text
    ELSE text

(***************************************************************************)
(* lines 406-482: the broadcast of the fragment has returned; the text is  *)
(* appended, the sentences are extracted and the first notification of a   *)
(* completed sentence is sent.                                             *)
(***************************************************************************)
FragmentBroadcastReturns(t) ==
    /\ pc[t] = "broadcast_fragment"
    /\ IF translators = {}
       THEN /\ pc' = [pc EXCEPT ![t] = "idle"]
            /\ UNCHANGED << accumulated_text, current_sentence_id, uuids, tr,
                            complete_sentences, remaining_text, idx,
                            sentence_id, calls >>
       ELSE LET acc == Accumulate(final_text[t])
                ex == extract_complete_sentences(acc)
                cs == ex[1]
            IN
            IF cs # <<>> /\ cs[1] = PUNCTUATION_COMPLETE
            THEN IF Strip(acc) # <<>>
                 THEN IF current_sentence_id # None
                      THEN \* line 429: broadcast the completed sentence
                           /\ accumulated_text' = acc
                           /\ calls' = Append(calls,
                                  TranscriptionCall(t, acc, current_sentence_id, TRUE))
                           /\ pc' = [pc EXCEPT ![t] = "broadcast_punctuation"]
                           /\ UNCHANGED << current_sentence_id, uuids, tr,
                                           complete_sentences, remaining_text,
                                           idx, sentence_id >>
                      ELSE \* line 442 without the broadcast
                           /\ accumulated_text' = acc
                           /\ calls' = Append(calls, DispatchCall(t, acc, None))
                           /\ tr' = [tr EXCEPT ![t] = StartGather(t, acc, None)]
                           /\ pc' = [pc EXCEPT ![t] = "translate_punctuation"]
                           /\ UNCHANGED << current_sentence_id, uuids,
                                           complete_sentences, remaining_text,
                                           idx, sentence_id >>
                 ELSE \* line 449
                      /\ accumulated_text' = acc
                      /\ pc' = [pc EXCEPT ![t] = "idle"]
                      /\ UNCHANGED << current_sentence_id, uuids, tr,
                                      complete_sentences, remaining_text, idx,
                                      sentence_id, calls >>
            ELSE IF cs # <<>>
            THEN \* lines 450-467, first sentence
                 LET sid == IF Len(cs) = 1 THEN current_sentence_id
                            ELSE uuids + 1 IN
                 /\ accumulated_text' = acc
                 /\ complete_sentences' = [complete_sentences EXCEPT ![t] = cs]
                 /\ remaining_text' = [remaining_text EXCEPT ![t] = ex[2]]
                 /\ idx' = [idx EXCEPT ![t] = 1]
                 /\ sentence_id' = [sentence_id EXCEPT ![t] = sid]
                 /\ uuids' = IF Len(cs) = 1 THEN uuids ELSE uuids + 1
                 /\ calls' = Append(calls, TranscriptionCall(t, cs[1], sid, TRUE))
                 /\ pc' = [pc EXCEPT ![t] = "broadcast_sentence"]
                 /\ UNCHANGED << current_sentence_id, tr >>
            ELSE \* no complete sentence yet
                 /\ accumulated_text' = acc
                 /\ pc' = [pc EXCEPT ![t] = "idle"]
                 /\ UNCHANGED << current_sentence_id, uuids, tr,
                                 complete_sentences, remaining_text, idx,
                                 sentence_id, calls >>
    /\ UNCHANGED envVars
    /\ UNCHANGED << audioTracks, final_text, ev, last_final_transcript,
                    translators, workerVars, received >>

(***************************************************************************)
(* lines 441-447: the broadcast of the sentence completed by a punctuation *)
(* signal has returned; accumulated_text and current_sentence_id are read  *)
(* again for the call of translate_sentences.                              *)
(***************************************************************************)
PunctuationBroadcastReturns(t) ==
    /\ pc[t] = "broadcast_punctuation"
    /\ calls' = Append(calls, DispatchCall(t, accumulated_text, current_sentence_id))
    /\ IF Dispatches(accumulated_text)
       THEN /\ tr' = [tr EXCEPT ![t] =
                        StartGather(t, accumulated_text, current_sentence_id)]
            /\ pc' = [pc EXCEPT ![t] = "translate_punctuation"]
            /\ UNCHANGED << accumulated_text, current_sentence_id >>
       ELSE \* translate_sentences returns at once; lines 445-446
            /\ accumulated_text' = <<>>
            /\ current_sentence_id' = None
            /\ pc' = [pc EXCEPT ![t] = "idle"]
            /\ UNCHANGED tr
    /\ UNCHANGED envVars
    /\ UNCHANGED << audioTracks, final_text, complete_sentences, remaining_text,
                    idx, sentence_id, ev, last_final_transcript, translators,
                    uuids, workerVars, received >>

\* lines 442-447: translate_sentences has returned; the buffer is cleared
PunctuationTranslateReturns(t) ==
    /\ pc[t] = "translate_punctuation"
    /\ GatherDone(t)
    /\ accumulated_text' = <<>>
    /\ current_sentence_id' = None
    /\ pc' = [pc EXCEPT ![t] = "idle"]
    /\ UNCHANGED envVars
    /\ UNCHANGED << audioTracks, final_text, complete_sentences, remaining_text,
                    idx, sentence_id, ev, last_final_transcript, translators,
                    uuids, tr, workerVars, received, calls >>

\* lines 457-469: the broadcast of a complete sentence has returned and the
\* sentence is handed to translate_sentences
SentenceBroadcastReturns(t) ==
    /\ pc[t] = "broadcast_sentence"
    /\ LET sentence == complete_sentences[t][idx[t]] IN
       /\ calls' = Append(calls, DispatchCall(t, sentence, sentence_id[t]))
       /\ tr' = [tr EXCEPT ![t] = StartGather(t, sentence, sentence_id[t])]
    /\ pc' = [pc EXCEPT ![t] = "translate_sentence"]
    /\ UNCHANGED envVars
    /\ UNCHANGED << audioTracks, final_text, complete_sentences, remaining_text,
                    idx, sentence_id, ev, bufferVars, translators, uuids,
                    workerVars, received >>

\* lines 455-475: translate_sentences has returned; the loop goes on to the
\* next sentence, or ends and the buffer is set to the remaining text
SentenceTranslateReturns(t) ==
    /\ pc[t] = "translate_sentence"
    /\ GatherDone(t)
    /\ IF idx[t] < Len(complete_sentences[t])
       THEN LET sid == IF Len(complete_sentences[t]) = 1
                       THEN current_sentence_id ELSE uuids + 1 IN
            /\ idx' = [idx EXCEPT ![t] = idx[t] + 1]
            /\ sentence_id' = [sentence_id EXCEPT ![t] = sid]
            /\ uuids' = IF Len(complete_sentences[t]) = 1 THEN uuids ELSE uuids + 1
            /\ calls' = Append(calls,
                   TranscriptionCall(t, complete_sentences[t][idx[t] + 1], sid, TRUE))
            /\ pc' = [pc EXCEPT ![t] = "broadcast_sentence"]
            /\ UNCHANGED << accumulated_text, current_sentence_id >>
       ELSE /\ accumulated_text' = remaining_text[t]
            /\ current_sentence_id' =
                   IF remaining_text[t] # <<>> THEN uuids + 1 ELSE None
            /\ uuids' = IF remaining_text[t] # <<>> THEN uuids + 1 ELSE uuids
            /\ pc' = [pc EXCEPT ![t] = "idle"]
            /\ UNCHANGED << idx, sentence_id, calls >>
    /\ UNCHANGED envVars
    /\ UNCHANGED << audioTracks, final_text, complete_sentences, remaining_text,
                    ev, last_final_transcript, translators, tr, workerVars,
                    received >>

(***************************************************************************)
(* Translator.translate for the call of track t to the translator of       *)
(* language l.                                                             *)
(***************************************************************************)
\* a history that is never trimmed
AppendPairUnbounded(history, maxlen, message, translated) ==
    history \o << [role |-> "user", content |-> message],
                  [role |-> "assistant", content |-> translated] >>

\* a history that evicts a single entry when it is full
AppendPairEvictsEntry(history, maxlen, message, translated) ==
    LET h == history \o << [role |-> "user", content |-> message],
                           [role |-> "assistant", content |-> translated] >>
    IN IF Len(h) > maxlen THEN Tail(h) ELSE h

\* lines 266-267: append, twice, to a deque of the given maxlen
AppendPair(history, maxlen, message, translated) ==
    LET h == history \o << [role |-> "user", content |-> message],
                           [role |-> "assistant", content |-> translated] >>
    IN IF Len(h) > maxlen THEN SubSeq(h, Len(h) - maxlen + 1, Len(h)) ELSE h

\* lines 229-242: the request is built with the system prompt and sent;
\* llm.chat returns the stream of the answer
Request(call, prompt) ==
    [call EXCEPT !.st = "call", !.system_prompt = prompt, !.open_streams = @ + 1]

\* lines 105, 226-242, 152-214: the task of the call runs: it enters the loop
\* and _perform_translation, which resolves the prompt if no call has done
\* so: from the prompt of the room, without waiting; from the prompt of the
\* except clause if the prompt of the room is not a format string; from the
\* prompt builder, which is awaited, if the room has no prompt or its prompt
\* has an unknown placeholder
PerformTranslation(t, l) ==
    /\ tr[t][l].st = "start"
    /\ IF prompt_initialized[l]
       THEN /\ tr' = [tr EXCEPT ![t][l] = Request(@, system_prompt[l])]
            /\ UNCHANGED promptVars
       ELSE IF tenant_context.translation_prompt /\ DirectPrompt(l).error # "KeyError"
       THEN /\ system_prompt' = [system_prompt EXCEPT ![l] = tenant_context.room_id]
            /\ prompt_text' = [prompt_text EXCEPT ![l] =
                   IF DirectPrompt(l).error = "none" THEN DirectPrompt(l).prompt
                   ELSE FallbackPrompt(l)]
            /\ prompt_initialized' = [prompt_initialized EXCEPT ![l] = TRUE]
            /\ prompt_resolutions' =
                   [prompt_resolutions EXCEPT ![l] = prompt_resolutions[l] + 1]
            /\ tr' = [tr EXCEPT ![t][l] =
                         Request([@ EXCEPT !.room_id = tenant_context.room_id],
                                 tenant_context.room_id)]
       ELSE /\ tr' = [tr EXCEPT ![t][l] =
                         [@ EXCEPT !.st = "prompt",
                                   !.room_id = tenant_context.room_id]]
            /\ UNCHANGED promptVars
    /\ UNCHANGED envVars
    /\ UNCHANGED << audioTracks, trackVars, bufferVars, translators, uuids,
                    message_history, translation_count, error_count,
                    received, calls >>

\* lines 190-198: prompt_builder.get_prompt_for_room has returned the prompt
\* for the room_id it was called with
PromptResolved(t, l) ==
    /\ tr[t][l].st = "prompt"
    /\ system_prompt' = [system_prompt EXCEPT ![l] = tr[t][l].room_id]
    /\ prompt_text' = [prompt_text EXCEPT ![l] =
           get_prompt_for_room(tr[t][l].room_id, l, prompt_template)]
    /\ prompt_initialized' = [prompt_initialized EXCEPT ![l] = TRUE]
    /\ prompt_resolutions' =
           [prompt_resolutions EXCEPT ![l] = prompt_resolutions[l] + 1]
    /\ tr' = [tr EXCEPT ![t][l] = Request(@, tr[t][l].room_id)]
    /\ UNCHANGED envVars
    /\ UNCHANGED << audioTracks, trackVars, bufferVars, translators, uuids,
                    message_history, translation_count, error_count,
                    received, calls >>

\* lines 105-109, 244-270: _perform_translation returns a translation, after
\* it has closed the stream and appended the pair to the history; the
\* translation is published
ProviderReturnsText(t, l) ==
    /\ tr[t][l].st = "call"
    /\ message_history' = [message_history EXCEPT ![l] =
           AppendPair(message_history[l], 2 * context_pairs[l],
                      tr[t][l].message, Translation(l, tr[t][l].message))]
    /\ tr' = [tr EXCEPT ![t][l] =
                [@ EXCEPT !.st = "publish",
                          !.outcomes = Append(@, "text"),
                          !.open_streams = @ - 1,
                          !.published = @ + 1]]
    /\ UNCHANGED envVars
    /\ UNCHANGED << audioTracks, trackVars, bufferVars, translators, uuids,
                    translation_count, error_count, promptVars, received, calls >>

\* an empty output that is recorded in the history
ProviderReturnsEmptyRecorded(t, l) ==
    /\ tr[t][l].st = "call"
    /\ message_history' = [message_history EXCEPT ![l] =
           @ \o << [role |-> "user", content |-> tr[t][l].message],
                   [role |-> "assistant", content |-> <<>>] >>]
    /\ tr' = [tr EXCEPT ![t][l] =
                [@ EXCEPT !.st = "done",
                          !.outcomes = Append(@, "empty"),
                          !.open_streams = @ - 1,
                          !.result = <<>>]]
    /\ UNCHANGED envVars
    /\ UNCHANGED << audioTracks, trackVars, bufferVars, translators, uuids,
                    translation_count, error_count, promptVars, received, calls >>

\* an empty output that is handled as a failed attempt
ProviderReturnsEmptyRetries(t, l) ==
    /\ tr[t][l].st = "call"
    /\ tr[t][l].retry_count < max_retries
    /\ error_count' = [error_count EXCEPT ![l] = error_count[l] + 1]
    /\ tr' = [tr EXCEPT ![t][l] =
                [@ EXCEPT !.retry_count = @ + 1,
                          !.outcomes = Append(@, "empty"),
                          !.open_streams = @ - 1,
                          !.wait_time = (tr[t][l].retry_count + 1) * half_second,
                          !.st = "sleep"]]
    /\ UNCHANGED envVars
    /\ UNCHANGED << audioTracks, trackVars, bufferVars, translators, uuids,
                    message_history, translation_count, promptVars,
                    received, calls >>

\* lines 107, 121-123, 244-262: _perform_translation closes the stream and
\* returns the empty string
ProviderReturnsEmpty(t, l) ==
    /\ tr[t][l].st = "call"
    /\ tr' = [tr EXCEPT ![t][l] =
                [@ EXCEPT !.st = "done",
                          !.outcomes = Append(@, "empty"),
                          !.open_streams = @ - 1,
                          !.result = <<>>]]
    /\ UNCHANGED envVars
    /\ UNCHANGED << audioTracks, trackVars, bufferVars, translators, uuids,
                    workerVars, received, calls >>

\* a loop that sleeps and tries again after every failure
ProviderRaisesRetriesForever(t, l) ==
    /\ tr[t][l].st = "call"
    /\ failures < MaxFailures
    /\ failures' = failures + 1
    /\ error_count' = [error_count EXCEPT ![l] = error_count[l] + 1]
    /\ tr' = [tr EXCEPT ![t][l] =
                [@ EXCEPT !.retry_count = @ + 1,
                          !.outcomes = Append(@, "error"),
                          !.open_streams = @ - 1,
                          !.wait_time = (tr[t][l].retry_count + 1) * half_second,
                          !.st = "sleep"]]
    /\ UNCHANGED << tenant_context, dispatched, sessionVars >>
    /\ UNCHANGED << audioTracks, trackVars, bufferVars, translators, uuids,
                    message_history, translation_count, promptVars,
                    received, calls >>

\* lines 125-150, 250-262: _perform_translation closes the stream and raises
ProviderRaises(t, l) ==
    /\ tr[t][l].st = "call"
    /\ failures < MaxFailures
    /\ failures' = failures + 1
    /\ error_count' = [error_count EXCEPT ![l] = error_count[l] + 1]
    /\ LET retry_count == tr[t][l].retry_count + 1 IN
       tr' = [tr EXCEPT ![t][l] =
                IF retry_count <= max_retries
                THEN [@ EXCEPT !.retry_count = retry_count,
                               !.outcomes = Append(@, "error"),
                               !.open_streams = @ - 1,
                               !.wait_time = retry_count * half_second,
                               !.st = "sleep"]
                ELSE [@ EXCEPT !.retry_count = retry_count,
                               !.outcomes = Append(@, "error"),
                               !.open_streams = @ - 1,
                               !.result = <<>>,
                               !.st = "done"]]
    /\ UNCHANGED << tenant_context, dispatched, sessionVars >>
    /\ UNCHANGED << audioTracks, trackVars, bufferVars, translators, uuids,
                    message_history, translation_count, promptVars,
                    received, calls >>

\* lines 136, 103-105, 226-242: asyncio.sleep(wait_time) is over, the loop
\* tries again
BackoffElapses(t, l) ==
    /\ tr[t][l].st = "sleep"
    /\ tr' = [tr EXCEPT ![t][l] = Request(@, system_prompt[l])]
    /\ UNCHANGED envVars
    /\ UNCHANGED << audioTracks, trackVars, bufferVars, translators, uuids,
                    workerVars, received, calls >>

\* a broadcast whose failure reaches the except clause of the retry loop
PublishTranslationBroadcastRaises(t, l) ==
    /\ tr[t][l].st = "publish"
    /\ tr[t][l].retry_count < max_retries
    /\ error_count' = [error_count EXCEPT ![l] = error_count[l] + 1]
    /\ tr' = [tr EXCEPT ![t][l] =
                [@ EXCEPT !.retry_count = @ + 1,
                          !.outcomes = Append(@, "error"),
                          !.wait_time = (tr[t][l].retry_count + 1) * half_second,
                          !.st = "sleep"]]
    /\ UNCHANGED envVars
    /\ UNCHANGED << audioTracks, trackVars, bufferVars, translators, uuids,
                    message_history, translation_count, promptVars,
                    received, calls >>

\* a broadcast that is held back until the other calls of the gather are over
PublishTranslationWaitsForOthers(t, l) ==
    /\ tr[t][l].st = "publish"
    /\ \A k \in Languages \ { l } : tr[t][k].st \in {"none", "done"}
    /\ calls' = Append(calls,
           TranslationCall(t, l, Translation(l, tr[t][l].message),
                           tr[t][l].sentence_id))
    /\ translation_count' = [translation_count EXCEPT ![l] = translation_count[l] + 1]
    /\ tr' = [tr EXCEPT ![t][l] =
                [@ EXCEPT !.st = "done",
                          !.broadcasts = @ + 1,
                          !.result = Translation(l, tr[t][l].message)]]
    /\ UNCHANGED envVars
    /\ UNCHANGED << audioTracks, trackVars, bufferVars, translators, uuids,
                    message_history, error_count, promptVars, received >>

\* lines 109-120: _publish_transcription has returned; the translation is
\* broadcast, counted and returned
PublishTranslationReturns(t, l) ==
    /\ tr[t][l].st = "publish"
    /\ calls' = Append(calls,
           TranslationCall(t, l, Translation(l, tr[t][l].message),
                           tr[t][l].sentence_id))
    /\ translation_count' = [translation_count EXCEPT ![l] = translation_count[l] + 1]
    /\ tr' = [tr EXCEPT ![t][l] =
                [@ EXCEPT !.st = "done",
                          !.broadcasts = @ + 1,
                          !.result = Translation(l, tr[t][l].message)]]
    /\ UNCHANGED envVars
    /\ UNCHANGED << audioTracks, trackVars, bufferVars, translators, uuids,
                    message_history, error_count, promptVars, received >>

\* lines 109-120, 294-296: publish_transcription has raised, which
\* _publish_transcription catches; the translation is broadcast, counted and
\* returned
PublishTranslationRaises(t, l) ==
    /\ tr[t][l].st = "publish"
    /\ calls' = Append(calls,
           TranslationCall(t, l, Translation(l, tr[t][l].message),
                           tr[t][l].sentence_id))
    /\ translation_count' = [translation_count EXCEPT ![l] = translation_count[l] + 1]
    /\ tr' = [tr EXCEPT ![t][l] =
                [@ EXCEPT !.st = "done",
                          !.publish_failures = @ + 1,
                          !.broadcasts = @ + 1,
                          !.result = Translation(l, tr[t][l].message)]]
    /\ UNCHANGED envVars
    /\ UNCHANGED << audioTracks, trackVars, bufferVars, translators, uuids,
                    message_history, error_count, promptVars, received >>

(***************************************************************************)
(* The sinks: the broadcast to the displays and the storage of the         *)
(* transcript. A response is what the HTTP request of a sink ends with: a  *)
(* status, a timeout or another exception.                                 *)
(***************************************************************************)
Responses == { "200", "201", "500", "timeout", "error" }

\* what a sink function does: it returns True or False, or it raises
SinkResults == { "True", "False", "raised" }

\* database.py 324-377
broadcast_to_channel(response) ==
    IF ~service_role_key THEN "False"
    ELSE IF response = "200" THEN "True"
    ELSE "False"

\* database.py 184-191: the session the transcript is stored under;
\* ensure_active_session returns an id, or None
SessionOf(context, session) ==
    IF context.session_id # None THEN context.session_id ELSE session

\* database.py 151-240
store_transcript_in_database(context, session, response) ==
    IF ~service_role_key THEN "False"
    ELSE IF context.room_id = None \/ context.mosque_id = None THEN "False"
    ELSE IF SessionOf(context, session) = None THEN "False"
    ELSE IF response \in { "200", "201" } THEN "True"
    ELSE "False"

\* broadcasting.py 48, 55, 105: the text is not blank and the tenant context
\* names a room and a mosque
HasText(text) == Strip(text) # <<>>
HasRoom(context) == context.room_id # None /\ context.mosque_id # None

\* a broadcast_to_displays that stores what it has broadcast
broadcast_to_displaysStoresBroadcast(text, context, channel, session, store) ==
    LET attempts == HasText(text) /\ HasRoom(context)
        success == IF attempts THEN broadcast_to_channel(channel) ELSE "none"
    IN [fn |-> "broadcast_to_displays", text |-> text, context |-> context,
        channel |-> channel, session |-> session, store |-> store,
        broadcast |-> success,
        storage |-> IF success = "True"
                    THEN store_transcript_in_database(context, session, store)
                    ELSE "none",
        returned |-> IF success = "none" THEN "False" ELSE success]

\* broadcasting.py 24-159: what a run of broadcast_to_displays does with the
\* text: the answer of broadcast_to_channel and of the storage task it
\* creates ("none" if it does not call them), and what it returns
broadcast_to_displays(text, context, channel, session, store) ==
    LET attempts == HasText(text) /\ HasRoom(context)
        success == IF attempts THEN broadcast_to_channel(channel) ELSE "none"
    IN [fn |-> "broadcast_to_displays", text |-> text, context |-> context,
        channel |-> channel, session |-> session, store |-> store,
        broadcast |-> success,
        storage |-> IF attempts
                    THEN store_transcript_in_database(context, session, store)
                    ELSE "none",
        returned |-> IF success = "none" THEN "False" ELSE success]

\* database.py 186-188: a session established for the storage is kept in the
\* tenant context
WithSession(text, context, session) ==
    IF /\ HasText(text) /\ HasRoom(context) /\ service_role_key
       /\ context.session_id = None /\ session # None
    THEN [context EXCEPT !.session_id = session]
    ELSE context

\* translator.py 318-326: the task created for the broadcast of a translation
\* runs
BroadcastTaskRuns(channel, session, store) ==
    /\ Len(displays) < Len(calls)
    /\ LET text == calls[Len(displays) + 1].text IN
       /\ displays' = Append(displays,
              broadcast_to_displays(text, tenant_context, channel, session, store))
       /\ tenant_context' = WithSession(text, tenant_context, session)
    /\ UNCHANGED << failures, dispatched, participant_tasks, shutdown,
                    source_language, constructed, context_pairs,
                    changed_attributes,
                    service_role_key, prompt_template, extracted, serviceVars >>
    /\ UNCHANGED << audioTracks, trackVars, bufferVars, translators, uuids, tr,
                    workerVars, received, calls >>

\* text_processing.py 12-76: extract_complete_sentences is called with the
\* text and returns
extract_called ==
    /\ ~extracted.called
    /\ extracted' =
           LET ex == extract_complete_sentences(extracted.text)
           IN [extracted EXCEPT !.called = TRUE, !.complete_sentences = ex[1],
                                !.remaining_text = ex[2]]
    /\ UNCHANGED << failures, tenant_context, dispatched, participant_tasks,
                    shutdown, source_language, constructed, context_pairs,
                    changed_attributes, sinkVars, serviceVars >>
    /\ UNCHANGED << audioTracks, trackVars, bufferVars, translators, uuids, tr,
                    workerVars, received, calls >>

\* database.py 151-191: store_transcript_in_database is called. Without the
\* key or the room it returns False; with a session_id in the context it goes
\* on to store the row; without one it awaits ensure_active_session, which
\* asks the database for an active session of the room
store_transcript_called(p) ==
    /\ stores[p].st = "none"
    /\ \A q \in 1..(p - 1) : stores[q].st # "none"
    /\ stores' = [stores EXCEPT ![p] =
           IF ~service_role_key \/ ~HasRoom(tenant_context)
           THEN [@ EXCEPT !.st = "done", !.result = "False"]
           ELSE IF tenant_context.session_id # None
                THEN [@ EXCEPT !.st = "post",
                               !.session_id = tenant_context.session_id]
                ELSE [@ EXCEPT !.st = "check"]]
    /\ UNCHANGED << room_sessions, transcripts, sttVars, resourceVars, otherVars >>
    /\ UNCHANGED << failures, tenant_context, dispatched, participant_tasks,
                    shutdown, source_language, constructed, context_pairs,
                    changed_attributes, sinkVars, extracted >>
    /\ UNCHANGED << audioTracks, trackVars, bufferVars, translators, uuids, tr,
                    workerVars, received, calls >>

\* the answers of the database to a request
DatabaseResponses == { "200", "201", "500", "timeout", "error" }

\* the row the query of database.py 87-93 returns: the active session of the
\* room that started last
LatestSession == CHOOSE id \in room_sessions : \A other \in room_sessions : other <= id

\* database.py 99-110, 186-188: the query for an active session of the room
\* is answered. A status 200 with a row makes ensure_active_session return
\* its id, which is written to the context; every other answer (no row,
\* another status, a timeout, an error) leads to the creation of a session
ExistingSessionChecked(p, response) ==
    /\ stores[p].st = "check"
    /\ LET found == response = "200" /\ room_sessions # {} IN
       /\ stores' = [stores EXCEPT ![p] =
              IF found
              THEN [@ EXCEPT !.st = "post", !.session_id = LatestSession]
              ELSE [@ EXCEPT !.st = "create"]]
       /\ tenant_context' =
              IF found THEN [tenant_context EXCEPT !.session_id = LatestSession]
              ELSE tenant_context
    /\ UNCHANGED << room_sessions, transcripts, sttVars, resourceVars, otherVars >>
    /\ UNCHANGED << failures, dispatched, participant_tasks,
                    shutdown, source_language, constructed, context_pairs,
                    changed_attributes, sinkVars, extracted >>
    /\ UNCHANGED << audioTracks, trackVars, bufferVars, translators, uuids, tr,
                    workerVars, received, calls >>

\* database.py 113-141, 186-191: the insert of the new session is answered.
\* With a status 200 or 201 the row exists, ensure_active_session returns
\* its id and the id is written to the context; otherwise it returns None
\* and store_transcript_in_database returns False
SessionCreated(p, response) ==
    /\ stores[p].st = "create"
    /\ LET created == response \in { "200", "201" } IN
       /\ stores' = [stores EXCEPT ![p] =
              IF created
              THEN [@ EXCEPT !.st = "post", !.session_id = NewSession(p)]
              ELSE [@ EXCEPT !.st = "done", !.result = "False"]]
       /\ room_sessions' =
              IF created THEN room_sessions \cup { NewSession(p) } ELSE room_sessions
       /\ tenant_context' =
              IF created THEN [tenant_context EXCEPT !.session_id = NewSession(p)]
              ELSE tenant_context
    /\ UNCHANGED << transcripts, sttVars, resourceVars, otherVars >>
    /\ UNCHANGED << failures, dispatched, participant_tasks,
                    shutdown, source_language, constructed, context_pairs,
                    changed_attributes, sinkVars, extracted >>
    /\ UNCHANGED << audioTracks, trackVars, bufferVars, translators, uuids, tr,
                    workerVars, received, calls >>

\* database.py 194-236: the insert of the transcript, with the session_id
\* of the call, is answered
TranscriptStored(p, response) ==
    /\ stores[p].st = "post"
    /\ LET stored == response \in { "200", "201" } IN
       /\ stores' = [stores EXCEPT ![p] =
              [@ EXCEPT !.st = "done",
                        !.result = IF stored THEN "True" ELSE "False"]]
       /\ transcripts' =
              IF stored THEN Append(transcripts, stores[p].session_id)
              ELSE transcripts
    /\ UNCHANGED << room_sessions, sttVars, resourceVars, otherVars >>
    /\ UNCHANGED << failures, tenant_context, dispatched, participant_tasks,
                    shutdown, source_language, constructed, context_pairs,
                    changed_attributes, sinkVars, extracted >>
    /\ UNCHANGED << audioTracks, trackVars, bufferVars, translators, uuids, tr,
                    workerVars, received, calls >>

(***************************************************************************)
(* STTStreamManager, for the streams of one participant. A call h is a     *)
(* call of create_stream (the stream it opens is stream h) or of           *)
(* close_participant_stream.                                               *)
(***************************************************************************)
\* lines 228-229, 318-319: the lock of the participant, a new one if
\* _cleanup_locks has no entry
NewLock == CHOOSE g \in LockIds : ~locks[g].made
LockOf == IF cleanup_locks # None THEN cleanup_locks ELSE NewLock

\* asyncio.Lock.acquire by call h: at once when the lock is free and nobody
\* waits, else h joins the waiters
Acquired(lock, h) ==
    IF lock.owner = None /\ lock.waiters = <<>>
    THEN [lock EXCEPT !.made = TRUE, !.owner = h]
    ELSE [lock EXCEPT !.made = TRUE, !.waiters = Append(@, h)]

\* asyncio.Lock.release: the first waiter is woken and owns the lock
Released(lock) ==
    IF lock.waiters = <<>> THEN [lock EXCEPT !.owner = None]
    ELSE [lock EXCEPT !.owner = Head(lock.waiters), !.waiters = Tail(@)]

\* lines 231-268: create_stream, from the moment call h owns the lock to its
\* next suspension: it sleeps when the participant has disconnected within
\* the grace period, else it closes the stream registered for the
\* participant, if there is one, else it registers its stream and yields it
Entered(h, call, waits) ==
    IF waits THEN [call EXCEPT !.st = "grace"]
    ELSE IF participant_streams # None
         THEN [call EXCEPT !.st = "close_existing", !.stream = participant_streams]
         ELSE [call EXCEPT !.st = "open", !.stream = h]

\* lines 319-324: close_participant_stream, from the moment call h owns the
\* lock: it closes the stream registered for the participant, if there is
\* one, else it releases the lock and returns
Closes(h, call) ==
    IF participant_streams # None
    THEN [call EXCEPT !.st = "close_stream", !.stream = participant_streams]
    ELSE [call EXCEPT !.st = "done"]

\* call h goes on with the lock g it owns
Continues(h, g, call, waits) ==
    LET next == IF call.kind = "create" THEN Entered(h, call, waits)
                ELSE Closes(h, call)
    IN /\ stream_calls' = [stream_calls EXCEPT ![h] = next]
       /\ locks' = IF next.st = "done" THEN [locks EXCEPT ![g] = Released(@)]
                   ELSE locks
       /\ streams' = IF next.st = "open" THEN streams \cup { h } ELSE streams
       /\ participant_streams' =
              IF next.st = "open" THEN h ELSE participant_streams

\* the participant may have disconnected within the grace period
Waits == { waits \in BOOLEAN : waits => participant_disconnect_times }

\* lines 217-268, 313-324: call h of create_stream or of
\* close_participant_stream, up to its first suspension
StreamCallStarts(h, kind, waits) ==
    /\ UNCHANGED << participant_disconnect_times, close_all_calls >>
    /\ IF kind = "close" /\ participant_streams = None
       THEN /\ stream_calls' = [stream_calls EXCEPT ![h] =
                   [@ EXCEPT !.kind = kind, !.st = "done"]]
            /\ UNCHANGED << locks, cleanup_locks, streams, participant_streams >>
       ELSE LET g == LockOf
                call == [stream_calls[h] EXCEPT !.kind = kind, !.lock = g]
                lock == Acquired(locks[g], h)
            IN /\ cleanup_locks' = g
               /\ IF lock.owner = h
                  THEN /\ stream_calls' = [stream_calls EXCEPT ![h] =
                              IF kind = "create" THEN Entered(h, call, waits)
                              ELSE Closes(h, call)]
                       /\ locks' = [locks EXCEPT ![g] =
                              IF stream_calls'[h].st = "done" THEN Released(lock)
                              ELSE lock]
                       /\ streams' = IF stream_calls'[h].st = "open"
                                     THEN streams \cup { h } ELSE streams
                       /\ participant_streams' =
                              IF stream_calls'[h].st = "open" THEN h
                              ELSE participant_streams
                  ELSE /\ stream_calls' = [stream_calls EXCEPT ![h] =
                              [call EXCEPT !.st = "lock"]]
                       /\ locks' = [locks EXCEPT ![g] = lock]
                       /\ UNCHANGED << streams, participant_streams >>
    /\ UNCHANGED << entrypointVars, databaseVars, resourceVars >>

\* the calls are numbered in the order they are made
NextStreamCall(h) ==
    /\ stream_calls[h].st = "none"
    /\ \A q \in 1..(h - 1) : stream_calls[q].st # "none"

\* main.py 496-498: transcribe_track enters create_stream
create_stream_called(h, waits) ==
    /\ NextStreamCall(h)
    /\ waits \in Waits
    /\ StreamCallStarts(h, "create", waits)

\* main.py 545: the cleanup of a disconnected participant
close_participant_stream_called(h) ==
    /\ NextStreamCall(h)
    /\ StreamCallStarts(h, "close", FALSE)

\* a call that waited for the lock has been woken as its owner
LockAcquired(h, waits) ==
    /\ stream_calls[h].st = "lock"
    /\ locks[stream_calls[h].lock].owner = h
    /\ waits \in Waits
    /\ Continues(h, stream_calls[h].lock, stream_calls[h], waits)
    /\ UNCHANGED << cleanup_locks, participant_disconnect_times, close_all_calls >>
    /\ UNCHANGED << entrypointVars, databaseVars, resourceVars >>

\* lines 236-239: the sleep of the grace period is over
GraceElapsed(h) ==
    /\ stream_calls[h].st = "grace"
    /\ Continues(h, stream_calls[h].lock, stream_calls[h], FALSE)
    /\ UNCHANGED << cleanup_locks, participant_disconnect_times, close_all_calls >>
    /\ UNCHANGED << entrypointVars, databaseVars, resourceVars >>

\* lines 245-268: existing_stream.aclose() has returned or raised; the
\* stream is deregistered, and the stream of the call is registered and
\* yielded
ExistingStreamClosed(h) ==
    /\ stream_calls[h].st = "close_existing"
    /\ stream_calls' = [stream_calls EXCEPT ![h] =
           [@ EXCEPT !.st = "open", !.stream = h]]
    /\ streams' = (streams \ { stream_calls[h].stream }) \cup { h }
    /\ participant_streams' = h
    /\ UNCHANGED << locks, cleanup_locks, participant_disconnect_times,
                    close_all_calls >>
    /\ UNCHANGED << entrypointVars, databaseVars, resourceVars >>

\* lines 268-274, main.py 496-528: the body of `async with create_stream`
\* ends, because the audio stream has ended or the task was cancelled, and
\* the context manager awaits stream.aclose()
StreamHolderExits(h) ==
    /\ stream_calls[h].st = "open"
    /\ stream_calls' = [stream_calls EXCEPT ![h] = [@ EXCEPT !.st = "closing"]]
    /\ UNCHANGED << locks, cleanup_locks, streams, participant_streams,
                    participant_disconnect_times, close_all_calls >>
    /\ UNCHANGED << entrypointVars, databaseVars, resourceVars >>

\* lines 275-286, 325-336: stream.aclose() has returned or raised in the
\* cleanup of create_stream or in close_participant_stream: the stream is
\* deregistered, the entry of the participant is removed, the time of the
\* disconnect is recorded and the lock is released
ParticipantStreamClosed(h) ==
    /\ stream_calls[h].st \in { "closing", "close_stream" }
    /\ stream_calls' = [stream_calls EXCEPT ![h] = [@ EXCEPT !.st = "done"]]
    /\ streams' = streams \ { stream_calls[h].stream }
    /\ participant_streams' = None
    /\ participant_disconnect_times' = TRUE
    /\ locks' = [locks EXCEPT ![stream_calls[h].lock] = Released(@)]
    /\ UNCHANGED << cleanup_locks, close_all_calls >>
    /\ UNCHANGED << entrypointVars, databaseVars, resourceVars >>

\* lines 290-300: close_all returns at once without streams, else it awaits
\* the aclose of the first stream of its list
close_all(c) ==
    close_all_calls' = [close_all_calls EXCEPT ![c] =
        IF streams = {} THEN [@ EXCEPT !.st = "done"]
        ELSE [@ EXCEPT !.st = "closing", !.streams_to_close = streams]]

close_all_called(c) ==
    /\ close_all_calls[c].st = "none"
    /\ \A q \in 1..(c - 1) : close_all_calls[q].st # "none"
    /\ close_all(c)
    /\ UNCHANGED << stream_calls, locks, cleanup_locks, streams,
                    participant_streams, participant_disconnect_times >>
    /\ UNCHANGED << entrypointVars, databaseVars, resourceVars >>

\* lines 296-309: the aclose of a stream of the list has returned or
\* raised; the stream is deregistered; after the last one the entries of
\* the participants, their locks and their disconnect times are cleared
CloseAllStreamClosed(c, stream) ==
    /\ close_all_calls[c].st = "closing"
    /\ stream \in close_all_calls[c].streams_to_close
    /\ LET rest == close_all_calls[c].streams_to_close \ { stream } IN
       /\ close_all_calls' = [close_all_calls EXCEPT ![c] =
              [@ EXCEPT !.st = IF rest = {} THEN "done" ELSE "closing",
                        !.streams_to_close = rest]]
       /\ streams' = streams \ { stream }
       /\ participant_streams' = IF rest = {} THEN None ELSE participant_streams
       /\ cleanup_locks' = IF rest = {} THEN None ELSE cleanup_locks
       /\ participant_disconnect_times' =
              IF rest = {} THEN FALSE ELSE participant_disconnect_times
    /\ UNCHANGED << stream_calls, locks >>
    /\ UNCHANGED << entrypointVars, databaseVars, resourceVars >>

(***************************************************************************)
(* ResourceManager: the tracked tasks, the heartbeat monitor and the       *)
(* shutdown. Task h is the tracked task that makes stream call h: a        *)
(* transcribe_track of the speaker's audio track, or the stream cleanup    *)
(* made when the speaker disconnects.                                      *)
(***************************************************************************)
\* resource_management.py 95-98, 197-199: the tracked tasks that are not done
Active(h) == tasks[h].st # "none" /\ stream_calls[h].st # "done"
get_active_tasks == { h \in StreamCalls : Active(h) }

\* the task runs and no cancellation waits for it
Uncancelled(h) == tasks[h].st \in { "running", "cancelled" }

\* the tasks are numbered in the order they are made
NextTask(h) ==
    /\ tasks[h].st = "none"
    /\ \A q \in 1..(h - 1) : tasks[q].st # "none"

\* task.cancel() for the tasks of the set that are not done
WithCancelled(set) ==
    [h \in StreamCalls |->
        IF h \in set /\ Active(h) /\ tasks[h].st = "running"
        THEN [tasks[h] EXCEPT !.st = "cancelling"] ELSE tasks[h]]

\* main.py 535-551, resource_management.py 60-93: on_track_subscribed makes a
\* tracked task for transcribe_track and keeps it in participant_tasks;
\* create_task raises when the task manager is shut down
TrackHandlerCreated(h) ==
    /\ NextTask(h)
    /\ ~shutdown
    /\ tasks' = [q \in StreamCalls |->
           IF q = h THEN [st |-> "running", name |-> "track-handler", kept |-> TRUE]
           ELSE [tasks[q] EXCEPT !.kept = FALSE]]
    /\ UNCHANGED << participants, shutdown_calls, pool_session, shutdown >>
    /\ UNCHANGED << roomVars, databaseVars, sttVars, monitorVars >>

\* main.py 598-627: the speaker disconnects: the task kept for the speaker is
\* cancelled, the speaker is removed from the heartbeat monitor, and a
\* tracked task is made for close_participant_stream, unless create_task
\* raises
ParticipantDisconnected(h) ==
    /\ NextTask(h)
    /\ tasks' = [q \in StreamCalls |->
           IF q = h /\ ~shutdown
           THEN [st |-> "running", name |-> "cleanup-stt", kept |-> FALSE]
           ELSE [WithCancelled({ k \in StreamCalls : tasks[k].kept })[q]
                    EXCEPT !.kept = FALSE]]
    /\ participants' = participants \ { Speaker }
    /\ lapsed' = lapsed \ { Speaker }
    /\ UNCHANGED << shutdown_calls, pool_session, shutdown >>
    /\ UNCHANGED << lapses, monitor_task, timeout_callbacks >>
    /\ UNCHANGED << roomVars, databaseVars, sttVars >>

\* main.py 506-515, resource_management.py 360-368: transcribe_track updates
\* the heartbeat of the speaker every 100 frames
update_heartbeat(h) ==
    /\ tasks[h].st = "running"
    /\ stream_calls[h].kind = "create"
    /\ stream_calls[h].st = "open"
    /\ participants' = participants \cup { Speaker }
    /\ lapsed' = lapsed \ { Speaker }
    /\ UNCHANGED << tasks, shutdown_calls, pool_session, shutdown >>
    /\ UNCHANGED << lapses, monitor_task, timeout_callbacks >>
    /\ UNCHANGED << roomVars, databaseVars, sttVars >>

\* resource_management.py 375-377: more than the timeout has passed since
\* the last heartbeat of the participant
HeartbeatLapses(participant_id) ==
    /\ participant_id \in participants \ lapsed
    /\ lapses < MaxLapses
    /\ lapsed' = lapsed \cup { participant_id }
    /\ lapses' = lapses + 1
    /\ UNCHANGED << tasks, participants, shutdown_calls, pool_session, shutdown >>
    /\ UNCHANGED << monitor_task, timeout_callbacks >>
    /\ UNCHANGED << roomVars, databaseVars, sttVars >>

\* resource_management.py 370-415: the monitor loop wakes from its sleep
\* and checks the timeouts: every participant whose heartbeat is older than
\* the timeout is removed, and the callback registered by the entrypoint
\* (main.py 115-119), which does not suspend, is called with its id
check_timeouts ==
    /\ monitor_task = "running"
    /\ participants' = participants \ lapsed
    /\ lapsed' = {}
    /\ timeout_callbacks' = [p \in { Speaker } |->
           IF p \in lapsed THEN timeout_callbacks[p] + 1 ELSE timeout_callbacks[p]]
    /\ UNCHANGED << tasks, shutdown_calls, pool_session, shutdown >>
    /\ UNCHANGED << lapses, monitor_task >>
    /\ UNCHANGED << roomVars, databaseVars, sttVars >>

\* database.py 29-45: a database function asks the pool for its session
get_session ==
    /\ pool_session # "open"
    /\ pool_session' = "open"
    /\ UNCHANGED << tasks, participants, shutdown_calls, shutdown >>
    /\ UNCHANGED << roomVars, databaseVars, sttVars, monitorVars >>

\* the CancelledError reaches task h at the await it is suspended in: before
\* create_stream the task ends; waiting for the lock it leaves the waiters,
\* or passes the lock on; in the grace period it releases the lock; while it
\* closes a stream the `finally` deregisters that stream and the lock is
\* released; with its stream open (main.py 516-518) the context manager
\* starts to close the stream
TaskCancelled(h) ==
    /\ tasks[h].st = "cancelling"
    /\ stream_calls[h].st # "done"
    /\ tasks' = [tasks EXCEPT ![h] = [@ EXCEPT !.st = "cancelled"]]
    /\ LET call == stream_calls[h]
           g == call.lock
           closes == call.st \in { "close_existing", "closing", "close_stream" }
       IN
       /\ stream_calls' = [stream_calls EXCEPT ![h] =
              [@ EXCEPT !.st = IF call.st = "open" THEN "closing" ELSE "done"]]
       /\ locks' =
              IF call.st \in { "none", "open" } THEN locks
              ELSE IF locks[g].owner = h THEN [locks EXCEPT ![g] = Released(@)]
              ELSE [locks EXCEPT ![g] =
                       [@ EXCEPT !.waiters = SelectSeq(@, LAMBDA q : q # h)]]
       /\ streams' = IF closes THEN streams \ { call.stream } ELSE streams
       /\ participant_streams' = IF closes THEN None ELSE participant_streams
       /\ participant_disconnect_times' =
              IF call.st \in { "closing", "close_stream" } THEN TRUE
              ELSE participant_disconnect_times
    /\ UNCHANGED << cleanup_locks, close_all_calls >>
    /\ UNCHANGED << participants, shutdown_calls, pool_session, shutdown >>
    /\ UNCHANGED << roomVars, databaseVars, monitorVars >>

\* resource_management.py 461-480: ResourceManager.shutdown has returned
Completed(calls_, closings, c) ==
    calls_[c].st = "close_all" /\ closings[c].st = "done"

\* resource_management.py 506-537: the result of verify_cleanup_complete
verify_cleanup_complete(active_tasks, active_streams, active_participants, db_closed) ==
    [called |-> TRUE,
     cleanup_complete |-> /\ active_tasks = {}
                          /\ active_streams = {}
                          /\ active_participants = {}
                          /\ db_closed,
     tasks_remaining |-> active_tasks,
     streams_remaining |-> active_streams,
     participants_remaining |-> active_participants,
     db_connections_closed |-> db_closed]

\* main.py 748-777, 779-798, resource_management.py 461-480, 135-190:
\* perform_graceful_cleanup or the cleanup of on_room_disconnected calls
\* ResourceManager.shutdown. No shutdown handler is registered and no
\* monitor task runs, so the call goes on to TaskManager.shutdown, which
\* returns at once when it ran before; else it sets _shutdown and cancels
\* the tasks that are not done, and waits for them when there are any.
\* Without a wait the call goes straight on to close_all.
shutdown_called(c, caller) ==
    /\ shutdown_calls[c].st = "none"
    /\ \A q \in 1..(c - 1) : shutdown_calls[q].st # "none"
    /\ \A q \in ShutdownCalls : shutdown_calls[q].caller # caller
    /\ shutdown' = TRUE
    /\ IF shutdown \/ get_active_tasks = {}
       THEN /\ shutdown_calls' = [shutdown_calls EXCEPT ![c] =
                   [@ EXCEPT !.st = "close_all", !.caller = caller]]
            /\ close_all(c)
            /\ UNCHANGED tasks
       ELSE /\ shutdown_calls' = [shutdown_calls EXCEPT ![c] =
                   [@ EXCEPT !.st = "cancel_all", !.caller = caller,
                             !.tasks_to_cancel = get_active_tasks]]
            /\ tasks' = WithCancelled(get_active_tasks)
            /\ UNCHANGED close_all_calls
    /\ UNCHANGED << stream_calls, locks, cleanup_locks, streams,
                    participant_streams, participant_disconnect_times >>
    /\ UNCHANGED << participants, pool_session >>
    /\ UNCHANGED << roomVars, databaseVars, monitorVars >>

\* resource_management.py 159-169: the tasks have ended, or five seconds
\* have passed; the shutdown goes on to close_all
CancelAllReturns(c) ==
    /\ shutdown_calls[c].st = "cancel_all"
    /\ shutdown_calls' = [shutdown_calls EXCEPT ![c] = [@ EXCEPT !.st = "close_all"]]
    /\ close_all(c)
    /\ UNCHANGED << stream_calls, locks, cleanup_locks, streams,
                    participant_streams, participant_disconnect_times >>
    /\ UNCHANGED << tasks, participants, pool_session, shutdown >>
    /\ UNCHANGED << roomVars, databaseVars, monitorVars >>

\* main.py 800-830: after the shutdown the cleanup of on_room_disconnected
\* closes the room session and the connections of the database
DatabaseConnectionsClosed(c) ==
    /\ shutdown_calls[c].caller = "cleanup"
    /\ Completed(shutdown_calls, close_all_calls, c)
    /\ shutdown_calls' = [shutdown_calls EXCEPT ![c] = [@ EXCEPT !.st = "verify"]]
    /\ pool_session' = "closed"
    /\ UNCHANGED << tasks, participants, shutdown >>
    /\ UNCHANGED << roomVars, databaseVars, sttVars, monitorVars >>

\* main.py 832-834: the final verification of the cleanup
verify_cleanup_complete_called(c) ==
    /\ shutdown_calls[c].st = "verify"
    /\ shutdown_calls' = [shutdown_calls EXCEPT ![c] =
           [@ EXCEPT !.st = "done",
                     !.verification =
                        verify_cleanup_complete(get_active_tasks, streams,
                                                participants, pool_session # "open")]]
    /\ UNCHANGED << tasks, participants, pool_session, shutdown >>
    /\ UNCHANGED << roomVars, databaseVars, sttVars, monitorVars >>

(***************************************************************************)
(* WebhookHandler: the sessions the dashboard announces. A record is the   *)
(* row of a webhook's payload: the value of a key the row does not have is *)
(* the empty name or None. active_sessions is a dict, which keeps its keys *)
(* in the order of their insertion.                                        *)
(***************************************************************************)
NoName == ""
RoomNames == { "r1", "r2" }

\* webhook_handler.py 107: the name of the entry made for a session whose
\* room is not known
TempRoomName(session_id) == IF session_id = 1 THEN "session_1" ELSE "session_2"

\* the rows of the rooms table, with the name of the room under the key
\* Livekit_room_name, under the key livekit_room_name, or under both
RoomRecords ==
    [Livekit_room_name : RoomNames \cup { NoName },
     livekit_room_name : RoomNames \cup { NoName },
     mosque_id : { None, 1 },
     id : { 1 }]

\* the rows of the sessions table
SessionRecords ==
    [room_id : { 1, 2 }, id : { 1 }, mosque_id : { 1 }, logging_enabled : BOOLEAN]

\* the keys of active_sessions
Keys(sessions) == { sessions[i].room_name : i \in 1..Len(sessions) }

\* active_sessions[room_name] = info: the entry of the key is replaced where
\* it is, a new key is added at the end
WithEntry(sessions, room_name, info) ==
    LET entry == [room_name |-> room_name, info |-> info] IN
    IF room_name \in Keys(sessions)
    THEN [i \in 1..Len(sessions) |->
             IF sessions[i].room_name = room_name THEN entry ELSE sessions[i]]
    ELSE Append(sessions, entry)

\* del active_sessions[room_name]
WithoutEntry(sessions, room_name) ==
    SelectSeq(sessions, LAMBDA entry : entry.room_name # room_name)

\* the first entry of active_sessions whose info has the value at the key,
\* 0 if none has
FirstSession(sessions, key, value) ==
    IF \E i \in 1..Len(sessions) : sessions[i].info[key] = value
    THEN CHOOSE i \in 1..Len(sessions) :
             /\ sessions[i].info[key] = value
             /\ \A j \in 1..(i - 1) : sessions[j].info[key] # value
    ELSE 0

\* webhook_handler.py 145-147: the entry of the room, or the empty context
NoContext == [room_id |-> None, mosque_id |-> None, session_id |-> None,
              status |-> "none"]

get_room_context(sessions, room_name) ==
    IF room_name \in Keys(sessions)
    THEN sessions[CHOOSE i \in 1..Len(sessions) :
                      sessions[i].room_name = room_name].info
    ELSE NoContext

\* the history of the room webhooks: the last two
Recorded(kind, record) ==
    LET entry == [kind |-> kind, record |-> record, keys |-> Keys(active_sessions)]
    IN IF webhooks = <<>> THEN << entry >>
       ELSE << webhooks[Len(webhooks)], entry >>

\* what the webhooks leave alone
notWebhookVars ==
    << audioTracks, trackVars, bufferVars, translators, uuids, tr, workerVars,
       received, calls, failures, tenant_context, dispatched, participant_tasks,
       shutdown, source_language, constructed, context_pairs,
       changed_attributes, sinkVars, extracted, databaseVars, sttVars,
       resourceVars, connectionVars >>

\* webhook_handler.py 25-60: the room of the record is stored under the name
\* found at the key Livekit_room_name, unless the name or the mosque is
\* missing
handle_room_created(record) ==
    /\ handled < MaxWebhooks
    /\ handled' = handled + 1
    /\ webhooks' = Recorded("room_created", record)
    /\ LET room_name == record.Livekit_room_name
           mosque_id == record.mosque_id
       IN active_sessions' =
              IF room_name = NoName \/ mosque_id = None THEN active_sessions
              ELSE WithEntry(active_sessions, room_name,
                               [room_id |-> record.id, mosque_id |-> mosque_id,
                                session_id |-> None, status |-> "active"])
    /\ UNCHANGED notWebhookVars

\* webhook_handler.py 62-78: the entry under the name found at the key
\* livekit_room_name of the old record is deleted, if there is one
handle_room_deleted(old_record) ==
    /\ handled < MaxWebhooks
    /\ handled' = handled + 1
    /\ webhooks' = Recorded("room_deleted", old_record)
    /\ LET room_name == old_record.livekit_room_name
       IN active_sessions' =
              IF room_name # NoName /\ room_name \in Keys(active_sessions)
              THEN WithoutEntry(active_sessions, room_name)
              ELSE active_sessions
    /\ UNCHANGED notWebhookVars

\* webhook_handler.py 80-123: the first entry with the room_id of the
\* session gets the session; without such an entry one is made under a
\* temporary name
handle_session_started(record) ==
    /\ handled < MaxWebhooks
    /\ handled' = handled + 1
    /\ webhooks' = <<>>
    /\ LET i == FirstSession(active_sessions, "room_id", record.room_id)
           status == IF record.logging_enabled THEN "recording" ELSE "active"
       IN active_sessions' =
              IF i # 0
              THEN [active_sessions EXCEPT ![i].info =
                       [@ EXCEPT !.session_id = record.id, !.status = status]]
              ELSE WithEntry(active_sessions, TempRoomName(record.id),
                               [room_id |-> record.room_id,
                                mosque_id |-> record.mosque_id,
                                session_id |-> record.id, status |-> status])
    /\ UNCHANGED notWebhookVars

\* webhook_handler.py 125-143: the first entry with the session is marked
\* as ended
handle_session_ended(record) ==
    /\ handled < MaxWebhooks
    /\ handled' = handled + 1
    /\ webhooks' = <<>>
    /\ LET i == FirstSession(active_sessions, "session_id", record.id)
       IN active_sessions' =
              IF i # 0 THEN [active_sessions EXCEPT ![i].info.status = "ended"]
              ELSE active_sessions
    /\ UNCHANGED notWebhookVars

\* the sinks are called from outside the translators: broadcast_to_displays
\* with a text, and the two functions of database.py by themselves
DisplaysCalled(text, channel, session, store) ==
    /\ Len(displays) < MaxDisplays
    /\ displays' = Append(displays,
           broadcast_to_displays(text, tenant_context, channel, session, store))
    /\ tenant_context' = WithSession(text, tenant_context, session)
    /\ UNCHANGED << failures, dispatched, participant_tasks, shutdown,
                    source_language, constructed, context_pairs,
                    changed_attributes,
                    service_role_key, prompt_template, extracted, serviceVars >>
    /\ UNCHANGED << audioTracks, trackVars, bufferVars, translators, uuids, tr,
                    workerVars, received, calls >>

StoreCalled(session, store) ==
    /\ Len(displays) < MaxDisplays
    /\ displays' = Append(displays,
           [fn |-> "store_transcript_in_database", text |-> << "a" >>,
            context |-> tenant_context, channel |-> "200", session |-> session,
            store |-> store, broadcast |-> "none",
            storage |-> store_transcript_in_database(tenant_context, session, store),
            returned |-> store_transcript_in_database(tenant_context, session, store)])
    /\ tenant_context' =
           IF /\ service_role_key /\ HasRoom(tenant_context)
              /\ tenant_context.session_id = None /\ session # None
           THEN [tenant_context EXCEPT !.session_id = session]
           ELSE tenant_context
    /\ UNCHANGED << failures, dispatched, participant_tasks, shutdown,
                    source_language, constructed, context_pairs,
                    changed_attributes,
                    service_role_key, prompt_template, extracted, serviceVars >>
    /\ UNCHANGED << audioTracks, trackVars, bufferVars, translators, uuids, tr,
                    workerVars, received, calls >>

ChannelCalled(channel) ==
    /\ Len(displays) < MaxDisplays
    /\ displays' = Append(displays,
           [fn |-> "broadcast_to_channel", text |-> << "a" >>,
            context |-> tenant_context, channel |-> channel, session |-> None,
            store |-> "200", broadcast |-> broadcast_to_channel(channel),
            storage |-> "none", returned |-> broadcast_to_channel(channel)])
    /\ UNCHANGED << failures, tenant_context, dispatched, participant_tasks,
                    shutdown, source_language, constructed, context_pairs,
                    changed_attributes,
                    service_role_key, prompt_template, extracted, serviceVars >>
    /\ UNCHANGED << audioTracks, trackVars, bufferVars, translators, uuids, tr,
                    workerVars, received, calls >>

(***************************************************************************)
(* The translators used from outside the transcription tasks: a caller c   *)
(* (a slot of tr whose track is not subscribed) calls translate_sentences  *)
(* or Translator.translate, and may be cancelled while it waits.           *)
(***************************************************************************)
CallerIdle(c) ==
    /\ pc[c] = "unsubscribed"
    /\ \A l \in Languages : tr[c][l].st = "none"

\* the caller whose turn it is: the first one that waits for nothing
NextCaller(c) == CallerIdle(c) /\ \A b \in 1..(c - 1) : ~CallerIdle(b)

\* translation_helpers.py 12-46: translate_sentences([sentence], translators,
\* source_language, sid)
translate_sentences(c, sentence, sid) ==
    /\ NextCaller(c)
    /\ dispatched' = dispatched + 1
    /\ tr' = [tr EXCEPT ![c] =
                IF Dispatches(sentence) THEN StartGather(c, sentence, sid)
                ELSE [l \in Languages |-> NoCall]]
    /\ UNCHANGED << failures, tenant_context, sessionVars >>
    /\ UNCHANGED << audioTracks, trackVars, bufferVars, translators, uuids,
                    workerVars, received, calls >>

\* translation_helpers.py 74, translator.py 81-101: translator.translate(
\* message, sid) for the translator of language l
translate_called(c, l, message, sid) ==
    /\ NextCaller(c)
    /\ l \in translators
    /\ dispatched' = dispatched + 1
    /\ tr' = [tr EXCEPT ![c] =
                [k \in Languages |-> IF k = l THEN translate(message, sid) ELSE NoCall]]
    /\ UNCHANGED << failures, tenant_context, sessionVars >>
    /\ UNCHANGED << audioTracks, trackVars, bufferVars, translators, uuids,
                    workerVars, received, calls >>

\* the caller has got what its calls returned, or the CancelledError
caller_resumes(c) ==
    /\ pc[c] = "unsubscribed"
    /\ \E l \in Languages : tr[c][l].st # "none"
    /\ \A l \in Languages : tr[c][l].st \in {"none", "done", "cancelled"}
    /\ tr' = [tr EXCEPT ![c] = [l \in Languages |-> NoCall]]
    /\ UNCHANGED envVars
    /\ UNCHANGED << audioTracks, trackVars, bufferVars, translators, uuids,
                    workerVars, received, calls >>

\* translator.py 244-262 under task.cancel(): a call that reads its stream
\* goes to the finally clause, which awaits stream.aclose(); a call that is
\* cancelled again while it awaits aclose leaves the clause at once, since
\* "except Exception" does not catch CancelledError; a call suspended at any
\* other await is over
Cancelled(call) ==
    IF call.st = "call" THEN [call EXCEPT !.st = "closing"]
    ELSE IF call.st \in {"start", "prompt", "sleep", "publish", "closing"}
    THEN [call EXCEPT !.st = "cancelled"]
    ELSE call

\* resource_management.py 154-156, 162-165: task.cancel() reaches the caller
\* while it awaits its translate calls: CancelledError is raised in each of
\* them at the await where it is suspended, and no except clause of translate
\* catches it
Cancel(c) ==
    /\ pc[c] = "unsubscribed"
    /\ \E l \in Languages : tr[c][l].st \in {"start", "prompt", "call", "sleep",
                                             "publish", "closing"}
    /\ tr' = [tr EXCEPT ![c] = [l \in Languages |-> Cancelled(tr[c][l])]]
    /\ UNCHANGED envVars
    /\ UNCHANGED << audioTracks, trackVars, bufferVars, translators, uuids,
                    workerVars, received, calls >>

\* translator.py 253-256: stream.aclose() returns in a cancelled call, and the
\* CancelledError leaves translate
StreamClosed(c, l) ==
    /\ tr[c][l].st = "closing"
    /\ tr' = [tr EXCEPT ![c][l] =
                [@ EXCEPT !.st = "cancelled", !.open_streams = @ - 1]]
    /\ UNCHANGED envVars
    /\ UNCHANGED << audioTracks, trackVars, bufferVars, translators, uuids,
                    workerVars, received, calls >>

\* a handler that constructs a translator for every supported language that
\* is asked for, also when the room has one
on_attributes_changedReplaces(speaking_lang, lang) ==
    LET raises == /\ speaking_lang # NoLanguage
                  /\ speaking_lang # source_language
                  /\ speaking_lang \in Languages
        source == IF speaking_lang # NoLanguage /\ ~raises THEN speaking_lang
                  ELSE source_language
        creates == /\ ~raises
                   /\ lang # NoLanguage /\ lang # source /\ lang \in Languages
    IN /\ changed_attributes' =
              [speaking_language |-> speaking_lang, captions_language |-> lang]
       /\ source_language' = source
       /\ translators' = IF creates THEN translators \cup { lang } ELSE translators
       /\ constructed' = IF creates THEN [constructed EXCEPT ![lang] = @ + 1]
                         ELSE constructed
       /\ context_pairs' =
              IF creates
              THEN [context_pairs EXCEPT
                       ![lang] = get_context_window_size(tenant_context)]
              ELSE context_pairs
       /\ message_history' = IF creates THEN [message_history EXCEPT ![lang] = <<>>]
                             ELSE message_history
       /\ translation_count' = IF creates THEN [translation_count EXCEPT ![lang] = 0]
                               ELSE translation_count
       /\ error_count' = IF creates THEN [error_count EXCEPT ![lang] = 0]
                         ELSE error_count
       /\ prompt_initialized' =
              IF creates THEN [prompt_initialized EXCEPT ![lang] = FALSE]
              ELSE prompt_initialized
       /\ system_prompt' = IF creates THEN [system_prompt EXCEPT ![lang] = None]
                           ELSE system_prompt
       /\ prompt_text' = IF creates THEN [prompt_text EXCEPT ![lang] = NoPrompt]
                         ELSE prompt_text
       /\ UNCHANGED << failures, tenant_context, dispatched, participant_tasks,
                       shutdown, prompt_resolutions, sinkVars, extracted, serviceVars >>
       /\ UNCHANGED << audioTracks, trackVars, bufferVars, uuids, tr, received,
                       calls >>

\* main.py 630-690: the attributes of a participant have changed. A
\* speaking_language that differs from the source language is logged before
\* it is assigned (main.py 647): languages.get(speaking_lang, {}) is a
\* Language object for a supported code, it has no method get, and the
\* AttributeError ends the handler; for a code that is not supported the
\* lookup gives {} and the code becomes the source language. A
\* captions_language that is not the source language, has no translator and
\* is supported gets a new Translator (translator.py 43-79: empty history,
\* counters at zero, no prompt). The handler is a plain function: it runs
\* without suspension.
on_attributes_changed(speaking_lang, lang) ==
    LET raises == /\ speaking_lang # NoLanguage
                  /\ speaking_lang # source_language
                  /\ speaking_lang \in Languages
        source == IF speaking_lang # NoLanguage /\ ~raises THEN speaking_lang
                  ELSE source_language
        creates == /\ ~raises
                   /\ lang # NoLanguage
                   /\ lang # source
                   /\ lang \notin translators
                   /\ lang \in Languages
    IN /\ changed_attributes' =
              [speaking_language |-> speaking_lang, captions_language |-> lang]
       /\ source_language' = source
       /\ translators' = IF creates THEN translators \cup { lang } ELSE translators
       /\ constructed' = IF creates THEN [constructed EXCEPT ![lang] = @ + 1]
                         ELSE constructed
       /\ context_pairs' =
              IF creates
              THEN [context_pairs EXCEPT
                       ![lang] = get_context_window_size(tenant_context)]
              ELSE context_pairs
       /\ message_history' = IF creates THEN [message_history EXCEPT ![lang] = <<>>]
                             ELSE message_history
       /\ translation_count' = IF creates THEN [translation_count EXCEPT ![lang] = 0]
                               ELSE translation_count
       /\ error_count' = IF creates THEN [error_count EXCEPT ![lang] = 0]
                         ELSE error_count
       /\ prompt_initialized' =
              IF creates THEN [prompt_initialized EXCEPT ![lang] = FALSE]
              ELSE prompt_initialized
       /\ system_prompt' = IF creates THEN [system_prompt EXCEPT ![lang] = None]
                           ELSE system_prompt
       /\ prompt_text' = IF creates THEN [prompt_text EXCEPT ![lang] = NoPrompt]
                         ELSE prompt_text
       /\ UNCHANGED << failures, tenant_context, dispatched, participant_tasks,
                       shutdown, prompt_resolutions, sinkVars, extracted, serviceVars >>
       /\ UNCHANGED << audioTracks, trackVars, bufferVars, uuids, tr, received,
                       calls >>

\* main.py 564-595: a participant connects with metadata naming a room_id
\* and, unless session_id is None, a session_id; the tenant context, which
\* every translator shares, is updated. With a session_id the handler then
\* evaluates `not heartbeat_task`: the name is assigned in the handler
\* without a nonlocal declaration, so it is a local of the handler that is
\* not bound yet, the test raises UnboundLocalError, and the `except
\* Exception` of the handler logs it: no task is made.
on_participant_connected(room_id, session_id) ==
    /\ room \in { "connecting", "connected" }
    /\ Len(participant_metadata) < MaxParticipants
    /\ tenant_context' = [tenant_context EXCEPT
           !.room_id = room_id,
           !.session_id = IF session_id # None THEN session_id ELSE @]
    /\ participant_metadata' = Append(participant_metadata, session_id)
    /\ UNCHANGED << room, heartbeat_task, session_heartbeat_tasks, heartbeats >>
    /\ UNCHANGED << failures, dispatched, participant_tasks, shutdown,
                    source_language, constructed, context_pairs,
                    changed_attributes, sinkVars, extracted, databaseVars,
                    sttVars, resourceVars, webhookVars >>
    /\ UNCHANGED << audioTracks, trackVars, bufferVars, translators, uuids, tr,
                    workerVars, received, calls >>

\* the tasks named session-heartbeat that run
RunningHeartbeats ==
    { i \in 1..Len(session_heartbeat_tasks) : session_heartbeat_tasks[i] = "running" }

\* main.py 692-705: job.connect has returned; the entrypoint starts the
\* session-heartbeat task if the tenant context has a session_id
RoomConnected ==
    /\ room = "connecting"
    /\ room' = "connected"
    /\ IF tenant_context.session_id # None
       THEN /\ session_heartbeat_tasks' = Append(session_heartbeat_tasks, "running")
            /\ heartbeat_task' = Len(session_heartbeat_tasks) + 1
       ELSE UNCHANGED << session_heartbeat_tasks, heartbeat_task >>
    /\ UNCHANGED << participant_metadata, heartbeats >>
    /\ UNCHANGED << failures, tenant_context, dispatched, participant_tasks,
                    shutdown, source_language, constructed, context_pairs,
                    changed_attributes, sinkVars, extracted, databaseVars,
                    sttVars, resourceVars, webhookVars >>
    /\ UNCHANGED << audioTracks, trackVars, bufferVars, translators, uuids, tr,
                    workerVars, received, calls >>

\* main.py 123-144: a session-heartbeat task wakes from its sleep and
\* updates the heartbeat of the session in the database
update_session_heartbeat_periodic(i) ==
    /\ i \in RunningHeartbeats
    /\ heartbeats < MaxHeartbeats
    /\ heartbeats' = heartbeats + 1
    /\ UNCHANGED << room, heartbeat_task, session_heartbeat_tasks,
                    participant_metadata >>
    /\ UNCHANGED << failures, tenant_context, dispatched, participant_tasks,
                    shutdown, source_language, constructed, context_pairs,
                    changed_attributes, sinkVars, extracted, databaseVars,
                    sttVars, resourceVars, webhookVars >>
    /\ UNCHANGED << audioTracks, trackVars, bufferVars, translators, uuids, tr,
                    workerVars, received, calls >>

\* main.py 779-786, 839: the room is disconnected; the handler makes the
\* cleanup task
RoomDisconnected ==
    /\ room = "connected"
    /\ room' = "disconnected"
    /\ UNCHANGED << heartbeat_task, session_heartbeat_tasks,
                    participant_metadata, heartbeats >>
    /\ UNCHANGED << failures, tenant_context, dispatched, participant_tasks,
                    shutdown, source_language, constructed, context_pairs,
                    changed_attributes, sinkVars, extracted, databaseVars,
                    sttVars, resourceVars, webhookVars >>
    /\ UNCHANGED << audioTracks, trackVars, bufferVars, translators, uuids, tr,
                    workerVars, received, calls >>

\* main.py 785-798: the cleanup task cancels the task the entrypoint's
\* heartbeat_task names, if it is not done, and awaits it, before it shuts
\* the resource manager down
HeartbeatCancelled ==
    /\ room = "disconnected"
    /\ room' = "cleanup"
    /\ session_heartbeat_tasks' =
           [i \in 1..Len(session_heartbeat_tasks) |->
               IF i = heartbeat_task /\ session_heartbeat_tasks[i] = "running"
               THEN "cancelled" ELSE session_heartbeat_tasks[i]]
    /\ UNCHANGED << heartbeat_task, participant_metadata, heartbeats >>
    /\ UNCHANGED << failures, tenant_context, dispatched, participant_tasks,
                    shutdown, source_language, constructed, context_pairs,
                    changed_attributes, sinkVars, extracted, databaseVars,
                    sttVars, resourceVars, webhookVars >>
    /\ UNCHANGED << audioTracks, trackVars, bufferVars, translators, uuids, tr,
                    workerVars, received, calls >>

(***************************************************************************)
(* The end of a transcription: the participant disconnects, the audio      *)
(* stream of the track ends, or the session ends.                          *)
(***************************************************************************)
\* task.cancel() on a _forward_transcription task: CancelledError is raised at
\* the await where the task is suspended, and in the translate calls it has
\* gathered
CancelledCalls(t) == [l \in Languages |-> Cancelled(tr[t][l])]

\* main.py 597-628: the transcribe_track task kept for the participant is
\* cancelled and forgotten; CancelledError is raised in its audio loop and
\* re-raised (main.py 516-518), so that it leaves the STT stream context,
\* which closes the stream, without reaching stt_task.cancel()
on_participant_disconnected(t) ==
    /\ participant_tasks[t] = "running"
    /\ participant_tasks' = [participant_tasks EXCEPT ![t] = "cancelled"]
    /\ UNCHANGED << failures, tenant_context, dispatched, shutdown,
                    source_language, constructed, context_pairs,
                    changed_attributes, sinkVars, extracted, serviceVars >>
    /\ UNCHANGED << audioTracks, trackVars, bufferVars, translators, uuids, tr,
                    workerVars, received, calls >>

\* main.py 507-529: the audio stream of the track ends; transcribe_track cancels
\* the _forward_transcription task and awaits it
audio_stream_ends(t) ==
    /\ participant_tasks[t] = "running"
    /\ participant_tasks' = [participant_tasks EXCEPT ![t] = "done"]
    /\ pc' = [pc EXCEPT ![t] = "cancelled"]
    /\ tr' = [tr EXCEPT ![t] = CancelledCalls(t)]
    /\ UNCHANGED << failures, tenant_context, dispatched, shutdown,
                    source_language, constructed, context_pairs,
                    changed_attributes, sinkVars, extracted, serviceVars >>
    /\ UNCHANGED << audioTracks, final_text, complete_sentences, remaining_text,
                    idx, sentence_id, ev, bufferVars, translators, uuids,
                    workerVars, received, calls >>

\* main.py 779-800, resource_management.py 135-191, 461-480: the room is
\* disconnected; ResourceManager.shutdown cancels every task that is not done
on_room_disconnected ==
    /\ ~shutdown
    /\ shutdown' = TRUE
    /\ participant_tasks' =
           [t \in Tracks |-> IF participant_tasks[t] = "running" THEN "cancelled"
                              ELSE participant_tasks[t]]
    /\ pc' = [t \in Tracks |-> IF pc[t] = "unsubscribed" THEN pc[t] ELSE "cancelled"]
    /\ tr' = [t \in Tracks |-> IF pc[t] \in {"unsubscribed", "cancelled"} THEN tr[t]
                               ELSE CancelledCalls(t)]
    /\ UNCHANGED << failures, tenant_context, dispatched, source_language,
                    constructed, context_pairs, changed_attributes, sinkVars, extracted, serviceVars >>
    /\ UNCHANGED << audioTracks, final_text, complete_sentences, remaining_text,
                    idx, sentence_id, ev, bufferVars, translators, uuids,
                    workerVars, received, calls >>

(***************************************************************************)
(* The steps of the _forward_transcription tasks.                          *)
(***************************************************************************)
Forward ==
    \/ \E t \in Tracks : on_track_subscribed(t)
    \/ \E t \in Tracks, raw \in FragmentTexts : ReceiveFinalTranscript(t, raw)
    \/ \E t \in Tracks : PublishTranscriptionReturns(t)
    \/ \E t \in Tracks : FragmentBroadcastReturns(t)
    \/ \E t \in Tracks : PunctuationBroadcastReturns(t)
    \/ \E t \in Tracks : PunctuationTranslateReturns(t)
    \/ \E t \in Tracks : SentenceBroadcastReturns(t)
    \/ \E t \in Tracks : SentenceTranslateReturns(t)

\* the translation provider answers, with a translation or with nothing, or fails
Next ==
    \/ Forward
    \/ \E t \in Tracks, l \in Languages : PerformTranslation(t, l)
    \/ \E t \in Tracks, l \in Languages : PromptResolved(t, l)
    \/ \E t \in Tracks, l \in Languages : ProviderReturnsText(t, l)
    \/ \E t \in Tracks, l \in Languages : ProviderReturnsEmpty(t, l)
    \/ \E t \in Tracks, l \in Languages : ProviderRaises(t, l)
    \/ \E t \in Tracks, l \in Languages : BackoffElapses(t, l)
    \/ \E t \in Tracks, l \in Languages : PublishTranslationReturns(t, l)

\* the translation provider answers every call with a translation
NextTracks ==
    \/ Forward
    \/ \E t \in Tracks, l \in Languages : PerformTranslation(t, l)
    \/ \E t \in Tracks, l \in Languages : PromptResolved(t, l)
    \/ \E t \in Tracks, l \in Languages : ProviderReturnsText(t, l)
    \/ \E t \in Tracks, l \in Languages : PublishTranslationReturns(t, l)

\* the steps of the translate calls
Translating ==
    \/ \E t \in Tracks, l \in Languages : PerformTranslation(t, l)
    \/ \E t \in Tracks, l \in Languages : PromptResolved(t, l)
    \/ \E t \in Tracks, l \in Languages : ProviderReturnsText(t, l)
    \/ \E t \in Tracks, l \in Languages : ProviderReturnsEmpty(t, l)
    \/ \E t \in Tracks, l \in Languages : ProviderRaises(t, l)
    \/ \E t \in Tracks, l \in Languages : BackoffElapses(t, l)
    \/ \E t \in Tracks, l \in Languages : PublishTranslationReturns(t, l)

\* a translator called by concurrent callers from outside the transcription tasks
NextWorker ==
    \/ \E c \in Tracks, l \in Languages, message \in WorkerTexts :
           dispatched < MaxDispatches /\ translate_called(c, l, message, dispatched + 1)
    \/ \E c \in Tracks : caller_resumes(c)
    \/ \E c \in Tracks : Cancel(c)
    \/ \E c \in Tracks, l \in Languages : StreamClosed(c, l)
    \/ \E room_id \in RoomIds :
           room_id > tenant_context.room_id /\ on_participant_connected(room_id, None)
    \/ Translating

\* a translator called by one caller, one call after the other
NextCalls ==
    \/ \E l \in Languages, message \in WorkerTexts :
           dispatched < MaxCalls /\ translate_called(1, l, message, dispatched + 1)
    \/ caller_resumes(1)
    \/ Cancel(1)
    \/ \E l \in Languages : StreamClosed(1, l)
    \/ Translating

\* translate_sentences called from outside the transcription tasks, in a room
\* where participants ask for captions
NextDispatch ==
    \/ \E c \in Tracks, sentence \in WorkerTexts :
           dispatched < MaxGathers /\ translate_sentences(c, sentence, dispatched + 1)
    \/ \E c \in Tracks : caller_resumes(c)
    \/ \E lang \in CaptionLanguages : on_attributes_changed(NoLanguage, lang)
    \/ Translating

\* a room with a single transcription stream
Spec == InitOneTrack /\ [][Next]_vars

\* the rooms a translator resolves its prompt for: with or without a room id,
\* with or without a prompt of their own, of any form
PromptContexts ==
    { [WithWindow(DefaultContext, min_context_pairs)
           EXCEPT !.room_id = room_id, !.translation_prompt = p,
                  !.prompt_form = form] :
        room_id \in { None, 1 }, p \in BOOLEAN, form \in TemplateForms }

InitPrompt ==
    \E context \in PromptContexts, template \in TemplateStates :
        InitConfigured(context, TRUE, template, <<>>) /\ audioTracks = 1

\* a translator that resolves its prompt in a room of any configuration
NextPrompt ==
    \/ \E l \in Languages, message \in WorkerTexts :
           dispatched < MaxPublished /\ translate_called(1, l, message, dispatched + 1)
    \/ caller_resumes(1)
    \/ \E l \in Languages : PerformTranslation(1, l)
    \/ \E l \in Languages : PromptResolved(1, l)
    \/ \E l \in Languages : ProviderReturnsText(1, l)
    \/ \E l \in Languages : PublishTranslationReturns(1, l)

SpecPrompt == InitPrompt /\ [][NextPrompt]_vars

\* the tenant contexts the sinks are called with: with or without a room, a
\* mosque and a session
SinkContexts ==
    { [DefaultContext EXCEPT !.room_id = room_id, !.mosque_id = mosque_id,
                             !.session_id = session_id] :
        room_id \in { None, 1 }, mosque_id \in { None, 1 },
        session_id \in { None, 1 } }

\* the texts broadcast_to_displays is called with
SinkTexts == { <<>>, << SPACE >>, << "a" >> }

InitSinks ==
    \E context \in SinkContexts, key \in BOOLEAN :
        InitConfigured(context, key, "missing", <<>>) /\ audioTracks = 1

\* the sinks under every answer of the services behind them
NextSinks ==
    \/ \E text \in SinkTexts, channel \in Responses, session \in { None, 1 },
          store \in Responses : DisplaysCalled(text, channel, session, store)
    \/ \E session \in { None, 1 }, store \in Responses : StoreCalled(session, store)
    \/ \E channel \in Responses : ChannelCalled(channel)

SpecSinks == InitSinks /\ [][NextSinks]_vars

\* a translator whose room publish and whose display sinks may fail
NextPublish ==
    \/ \E l \in Languages, message \in WorkerTexts :
           dispatched < MaxPublished /\ translate_called(1, l, message, dispatched + 1)
    \/ caller_resumes(1)
    \/ \E l \in Languages : PerformTranslation(1, l)
    \/ \E l \in Languages : PromptResolved(1, l)
    \/ \E l \in Languages : ProviderReturnsText(1, l)
    \/ \E l \in Languages : PublishTranslationReturns(1, l)
    \/ \E l \in Languages : PublishTranslationRaises(1, l)
    \/ \E channel \in { "200", "timeout" }, store \in { "201", "500" } :
           BroadcastTaskRuns(channel, None, store)

SpecPublish == InitWorker /\ [][NextPublish]_vars

\* a room whose participants change their attributes while sentences are
\* translated
NextCaptions ==
    \/ \E c \in Tracks, sentence \in WorkerTexts :
           dispatched < MaxGathers /\ translate_sentences(c, sentence, dispatched + 1)
    \/ \E c \in Tracks : caller_resumes(c)
    \/ \E speaking_lang \in AttributeValues, lang \in AttributeValues :
           on_attributes_changed(speaking_lang, lang)
    \/ \E t \in Tracks, l \in Languages : PerformTranslation(t, l)
    \/ \E t \in Tracks, l \in Languages : PromptResolved(t, l)
    \/ \E t \in Tracks, l \in Languages : ProviderReturnsText(t, l)
    \/ \E t \in Tracks, l \in Languages : PublishTranslationReturns(t, l)

SpecCaptions == InitWorker /\ [][NextCaptions]_vars

\* a room with one or several audio tracks whose provider may fail
NextRetrying ==
    \/ \E t \in Tracks : on_track_subscribed(t)
    \/ \E t \in Tracks, raw \in SentenceTexts : ReceiveFinalTranscript(t, raw)
    \/ \E t \in Tracks : PublishTranscriptionReturns(t)
    \/ \E t \in Tracks : FragmentBroadcastReturns(t)
    \/ \E t \in Tracks : PunctuationBroadcastReturns(t)
    \/ \E t \in Tracks : PunctuationTranslateReturns(t)
    \/ \E t \in Tracks : SentenceBroadcastReturns(t)
    \/ \E t \in Tracks : SentenceTranslateReturns(t)
    \/ \E t \in Tracks, l \in Languages : PerformTranslation(t, l)
    \/ \E t \in Tracks, l \in Languages : PromptResolved(t, l)
    \/ \E t \in Tracks, l \in Languages : ProviderReturnsText(t, l)
    \/ \E t \in Tracks, l \in Languages :
           failures < MaxTrackFailures /\ ProviderRaises(t, l)
    \/ \E t \in Tracks, l \in Languages : BackoffElapses(t, l)
    \/ \E t \in Tracks, l \in Languages : PublishTranslationReturns(t, l)

SpecRetrying == InitTracks /\ [][NextRetrying]_vars

\* the context windows a room is configured with: none, or a size from below
\* the smallest to above the largest window
ConfiguredSizes == (0 - 1)..(largest_context_pairs + 1)

WindowContexts ==
    { DefaultContext } \cup { WithWindow(DefaultContext, size) : size \in ConfiguredSizes }

InitWindow == \E context \in WindowContexts : InitRoom(context) /\ audioTracks = 1

\* translators constructed in a room of any context window, at its start and
\* when a participant asks for captions, and the calls that fill their
\* histories
NextWindow ==
    \/ \E l \in Languages, message \in WorkerTexts :
           dispatched < MaxWindowCalls /\ translate_called(1, l, message, dispatched + 1)
    \/ caller_resumes(1)
    \/ \E lang \in CaptionLanguages : on_attributes_changed(NoLanguage, lang)
    \/ \E l \in Languages : PerformTranslation(1, l)
    \/ \E l \in Languages : PromptResolved(1, l)
    \/ \E l \in Languages : ProviderReturnsText(1, l)
    \/ \E l \in Languages : PublishTranslationReturns(1, l)

SpecWindow == InitWindow /\ [][NextWindow]_vars

\* a room with a mosque and without a session_id in its context, whose
\* process has the key or not, and which has an active session in the
\* database or not
InitStore ==
    \E key \in BOOLEAN, sessions \in { {}, { ExistingSession } } :
        /\ InitSession([DefaultContext EXCEPT !.session_id = None], key,
                       "missing", <<>>)
        /\ InitDatabase(sessions)
        /\ InitStreams
        /\ InitResources
        /\ InitConnections("connected", None)
        /\ InitWebhooks
        /\ audioTracks = 1

\* the storage tasks of a room, running at the same time, under every answer
\* of the database
NextStore ==
    \/ \E p \in StoreCalls : store_transcript_called(p)
    \/ \E p \in StoreCalls, response \in DatabaseResponses :
           ExistingSessionChecked(p, response)
    \/ \E p \in StoreCalls, response \in DatabaseResponses :
           SessionCreated(p, response)
    \/ \E p \in StoreCalls, response \in DatabaseResponses :
           TranscriptStored(p, response)

SpecStore == InitStore /\ [][NextStore]_vars

\* a room with one transcription stream whose participants change their
\* speaking language
NextSpeaking ==
    \/ \E t \in Tracks : on_track_subscribed(t)
    \/ \E t \in Tracks, raw \in SentenceTexts : ReceiveFinalTranscript(t, raw)
    \/ \E t \in Tracks : PublishTranscriptionReturns(t)
    \/ \E t \in Tracks : FragmentBroadcastReturns(t)
    \/ \E t \in Tracks : PunctuationBroadcastReturns(t)
    \/ \E t \in Tracks : PunctuationTranslateReturns(t)
    \/ \E t \in Tracks : SentenceBroadcastReturns(t)
    \/ \E t \in Tracks : SentenceTranslateReturns(t)
    \/ \E t \in Tracks, l \in Languages : PerformTranslation(t, l)
    \/ \E t \in Tracks, l \in Languages : PromptResolved(t, l)
    \/ \E t \in Tracks, l \in Languages : ProviderReturnsText(t, l)
    \/ \E t \in Tracks, l \in Languages : PublishTranslationReturns(t, l)
    \/ \E speaking_lang \in AttributeValues :
           on_attributes_changed(speaking_lang, NoLanguage)

SpecSpeaking == InitOneTrack /\ [][NextSpeaking]_vars

\* the STT streams of one participant whose track is subscribed again and
\* again, who disconnects, and whose room is shut down
NextStreams ==
    \/ \E h \in StreamCalls, waits \in BOOLEAN : create_stream_called(h, waits)
    \/ \E h \in StreamCalls : close_participant_stream_called(h)
    \/ \E h \in StreamCalls, waits \in BOOLEAN : LockAcquired(h, waits)
    \/ \E h \in StreamCalls : GraceElapsed(h)
    \/ \E h \in StreamCalls : ExistingStreamClosed(h)
    \/ \E h \in StreamCalls : StreamHolderExits(h)
    \/ \E h \in StreamCalls : ParticipantStreamClosed(h)
    \/ \E c \in CloseAllCalls : close_all_called(c)
    \/ \E c \in CloseAllCalls, stream \in StreamCalls : CloseAllStreamClosed(c, stream)

SpecStreams == InitOneTrack /\ [][NextStreams]_vars

\* a room whose speaker's track is subscribed again and again, whose speaker
\* disconnects, and which is cleaned up by the frontend's request and by the
\* disconnection of the room. No call finds a stream registered when it owns
\* the lock: the locks are cleared by close_all only, after which no task
\* is made and every task made before is cancelled.
ShutdownCallers == { "perform_graceful_cleanup", "cleanup" }

Transcribing ==
    \/ \E h \in StreamCalls : TrackHandlerCreated(h)
    \/ \E h \in StreamCalls : ParticipantDisconnected(h)
    \/ \E h \in StreamCalls, waits \in BOOLEAN :
           /\ tasks[h].st = "running" /\ tasks[h].name = "track-handler"
           /\ create_stream_called(h, waits)
    \/ \E h \in StreamCalls :
           /\ tasks[h].st = "running" /\ tasks[h].name = "cleanup-stt"
           /\ close_participant_stream_called(h)
    \/ \E h \in StreamCalls, waits \in BOOLEAN :
           Uncancelled(h) /\ LockAcquired(h, waits)
    \/ \E h \in StreamCalls : Uncancelled(h) /\ GraceElapsed(h)
    \/ \E h \in StreamCalls : Uncancelled(h) /\ StreamHolderExits(h)
    \/ \E h \in StreamCalls : Uncancelled(h) /\ ParticipantStreamClosed(h)
    \/ \E h \in StreamCalls : update_heartbeat(h)
    \/ \E h \in StreamCalls : TaskCancelled(h)

NextShutdown ==
    \/ Transcribing
    \/ get_session
    \/ \E c \in ShutdownCalls, caller \in ShutdownCallers : shutdown_called(c, caller)
    \/ \E c \in ShutdownCalls : CancelAllReturns(c)
    \/ \E c \in ShutdownCalls, stream \in StreamCalls : CloseAllStreamClosed(c, stream)
    \/ \E c \in ShutdownCalls : DatabaseConnectionsClosed(c)
    \/ \E c \in ShutdownCalls : verify_cleanup_complete_called(c)

SpecShutdown == InitOneTrack /\ [][NextShutdown]_vars

\* a running room session whose speaker's heartbeats stop now and then.
\* The entrypoint makes its ResourceManager without entering it
\* (main.py 112), so start_monitoring (resource_management.py 447-451) is
\* never called and no monitor loop runs.
NextHeartbeat ==
    \/ Transcribing
    \/ \E participant_id \in { Speaker } : HeartbeatLapses(participant_id)

SpecHeartbeat == InitOneTrack /\ [][NextHeartbeat]_vars

\* the tasks of the session are scheduled: a task that can run does run
TaskSteps ==
    \/ \E h \in StreamCalls, waits \in BOOLEAN :
           Uncancelled(h) /\ LockAcquired(h, waits)
    \/ \E h \in StreamCalls : Uncancelled(h) /\ GraceElapsed(h)
    \/ \E h \in StreamCalls : Uncancelled(h) /\ ParticipantStreamClosed(h)
    \/ \E h \in StreamCalls : TaskCancelled(h)

FairSpecHeartbeat == SpecHeartbeat /\ WF_vars(TaskSteps)

\* the same session with the monitor loop of a ResourceManager that was
\* entered
InitMonitored ==
    \E task \in { "running" } :
        /\ InitSession(DefaultContext, TRUE, "missing", <<>>)
        /\ InitDatabase({})
        /\ InitStreams
        /\ tasks = [h \in StreamCalls |-> NoTask]
        /\ InitMonitor(task)
        /\ shutdown_calls = [c \in ShutdownCalls |-> NoShutdown]
        /\ pool_session = "none"
        /\ InitConnections("connected", DefaultContext.session_id)
        /\ InitWebhooks
        /\ audioTracks = 1

NextMonitored == NextHeartbeat \/ check_timeouts

SpecMonitored ==
    InitMonitored /\ [][NextMonitored]_vars /\ WF_vars(TaskSteps)
        /\ WF_vars(check_timeouts)

\* a room that is being connected, with or without a session_id in its
\* context, whose participants connect with or without a session_id in
\* their metadata, and which is disconnected
MetadataSessionIds == { None, 1, 2 }

InitConnecting ==
    \E session_id \in { None, 1 } :
        /\ InitSession([DefaultContext EXCEPT !.session_id = session_id], TRUE,
                       "missing", <<>>)
        /\ InitDatabase({})
        /\ InitStreams
        /\ InitResources
        /\ InitConnections("connecting", session_id)
        /\ InitWebhooks
        /\ audioTracks = 1

NextConnections ==
    \/ \E room_id \in RoomIds, session_id \in MetadataSessionIds :
           on_participant_connected(room_id, session_id)
    \/ RoomConnected
    \/ \E i \in 1..MaxParticipants : update_session_heartbeat_periodic(i)
    \/ RoomDisconnected
    \/ HeartbeatCancelled

SpecConnections == InitConnecting /\ [][NextConnections]_vars

\* the webhooks of the dashboard, in any order
NextWebhooks ==
    \/ \E record \in RoomRecords : handle_room_created(record)
    \/ \E old_record \in RoomRecords : handle_room_deleted(old_record)
    \/ \E record \in SessionRecords : handle_session_started(record)
    \/ \E record \in SessionRecords : handle_session_ended(record)

SpecWebhooks == InitOneTrack /\ [][NextWebhooks]_vars

InitExtract ==
    \E text \in ExtractTexts :
        InitConfigured(DefaultContext, TRUE, "missing", text) /\ audioTracks = 1

\* extract_complete_sentences by itself, called with any text
NextExtract == extract_called

SpecExtract == InitExtract /\ [][NextExtract]_vars

\* a room whose participants leave and whose session ends
NextSession ==
    \/ Next
    \/ \E t \in Tracks : on_participant_disconnected(t)
    \/ \E t \in Tracks : audio_stream_ends(t)
    \/ on_room_disconnected
    \/ \E t \in Tracks, l \in Languages : StreamClosed(t, l)

SpecSession == InitOneTrack /\ [][NextSession]_vars

\* a room with one or several audio tracks, each with its own
\* _forward_transcription task
SpecTracks == InitTracks /\ [][NextTracks]_vars

\* one translator under calls from concurrent callers
SpecWorker == InitWorker /\ [][NextWorker]_vars

\* one translator under a sequence of calls
SpecCalls == InitWorker /\ [][NextCalls]_vars

\* one sentence dispatched to the translators of a room
SpecDispatch == InitWorker /\ [][NextDispatch]_vars

\* the _forward_transcription task of the track can run: what it awaited (a
\* publish, a broadcast, or the gather of translate_sentences) has returned
TaskReady(t) ==
    \/ pc[t] \in {"publish_transcription", "broadcast_fragment",
                  "broadcast_punctuation", "broadcast_sentence"}
    \/ pc[t] \in {"translate_punctuation", "translate_sentence"} /\ GatherDone(t)

\* the event loop runs a _forward_transcription task that is ready, up to
\* its next await
TaskRuns ==
    \E t \in Tracks :
        /\ TaskReady(t)
        /\ \E p \in {"idle", "broadcast_fragment", "broadcast_punctuation",
                      "translate_punctuation", "broadcast_sentence",
                      "translate_sentence"} :
               p # pc[t] /\ pc' = [pc EXCEPT ![t] = p]

\* Spec with an event loop that runs every task that is ready, publishes and
\* broadcasts that return, a provider that answers every request and sleeps
\* that elapse
FairSpec == Spec /\ WF_pc(TaskRuns) /\ WF_vars(Translating)

\* SpecCalls with an event loop that runs every task that is ready, a provider
\* that answers every request and sleeps that elapse
FairSpecCalls ==
    /\ SpecCalls
    /\ WF_vars(Translating)
    /\ WF_vars(\E l \in Languages : StreamClosed(1, l))

(***************************************************************************)
(* Notions the properties are stated with.                                 *)
(***************************************************************************)
\* the _forward_transcription task of the track processes an event
Ingesting(t) == pc[t] \notin {"unsubscribed", "idle", "cancelled"}

\* no event is being processed
Quiescent == \A t \in Tracks : ~Ingesting(t)

IsFragmentCall(c) ==
    c.fn = "broadcast_to_displays" /\ c.message_type = "transcription" /\ ~c.is_complete

IsCompleteCall(c) ==
    c.fn = "broadcast_to_displays" /\ c.message_type = "transcription" /\ c.is_complete

IsDispatchCall(c) == c.fn = "translate_sentences"

FragmentCalls == SelectSeq(calls, IsFragmentCall)
CompleteCalls == SelectSeq(calls, IsCompleteCall)
DispatchCalls == SelectSeq(calls, IsDispatchCall)

\* the positions of calls with the calls made for the event e
CallsOf(e) == { i \in 1..Len(calls) : calls[i].ev = e }

IsPunctuationOnly(text) == Len(text) = 1 /\ text[1] \in sentence_endings

PunctuationFree(text) == \A i \in 1..Len(text) : text[i] \notin sentence_endings

\* the texts joined by single spaces
RECURSIVE SpaceJoin(_)
SpaceJoin(texts) ==
    IF texts = <<>> THEN <<>>
    ELSE IF Len(texts) = 1 THEN texts[1]
    ELSE texts[1] \o << SPACE >> \o SpaceJoin(Tail(texts))

\* the translate call is under way: waiting for the provider, for the backoff
\* sleep to end, or for the publication of its result
InFlight(t, l) ==
    tr[t][l].st \in {"start", "prompt", "call", "sleep", "publish", "closing"}

AwaitsTranslation(t) == pc[t] \in {"translate_punctuation", "translate_sentence"}

(***************************************************************************)
(* C1: after every ingest of a final-transcript fragment returns, accepted *)
(* or rejected, accumulated_text is empty if and only if                   *)
(* current_sentence_id is unset: whenever every ingest that was started    *)
(* has returned, the two agree.                                            *)
(***************************************************************************)
C1_BufferEmptyIffNoSentenceId ==
    Quiescent => (accumulated_text = <<>> <=> current_sentence_id = None)

(***************************************************************************)
(* C2: starting from an empty buffer, when k >= 1 punctuation-free         *)
(* fragments and then a fragment that is one sentence-ending punctuation   *)
(* character have been ingested, exactly one completed sentence has been   *)
(* notified and dispatched, its text is the space-joined fragments without *)
(* the punctuation, and accumulated_text and current_sentence_id are       *)
(* cleared.                                                                *)
(***************************************************************************)
\* received is w1, .., wk, p: k >= 1 accepted punctuation-free fragments and
\* then an accepted punctuation fragment, and all of them have been processed
PunctuationScenario ==
    /\ Len(received) >= 2
    /\ Quiescent
    /\ \A i \in 1..Len(received) : received[i].accepted
    /\ \A i \in 1..(Len(received) - 1) : PunctuationFree(received[i].text)
    /\ IsPunctuationOnly(received[Len(received)].text)

C2_PunctuationCompletesPendingText ==
    PunctuationScenario =>
        LET words == [i \in 1..(Len(received) - 1) |-> received[i].text] IN
        /\ Len(CompleteCalls) = 1
        /\ Len(DispatchCalls) = 1
        /\ CompleteCalls[1].text = SpaceJoin(words)
        /\ DispatchCalls[1].text = SpaceJoin(words)
        /\ accumulated_text = <<>>
        /\ current_sentence_id = None

C4_OneIngestAtATime ==
    Cardinality({ t \in Tracks : Ingesting(t) }) <= 1

(***************************************************************************)
(* C5: a fragment whose trimmed text is empty, or equal to the text of the *)
(* most recently accepted fragment, is rejected: it produces no            *)
(* notification and no dispatch and leaves accumulated_text,               *)
(* current_sentence_id and last_final_transcript unchanged; the same text  *)
(* twice in a row yields exactly one fragment notification.                *)
(***************************************************************************)
\* the text of the last event accepted before the event e, if there is one
RECURSIVE LastAcceptedBefore(_)
LastAcceptedBefore(e) ==
    IF e <= 1 THEN <<>>
    ELSE IF received[e - 1].accepted THEN received[e - 1].text
    ELSE LastAcceptedBefore(e - 1)

EmptyOrRepeated(e) ==
    \/ received[e].text = <<>>
    \/ received[e].text = LastAcceptedBefore(e)

FragmentCallsOf(e) == { i \in CallsOf(e) : IsFragmentCall(calls[i]) }

C5_Rejected ==
    \A e \in 1..Len(received) :
        /\ EmptyOrRepeated(e) => ~received[e].accepted /\ CallsOf(e) = {}
        /\ Cardinality(FragmentCallsOf(e)) <= 1
        /\ (e > 1 /\ received[e].text = received[e - 1].text)
               => FragmentCallsOf(e) = {} \/ FragmentCallsOf(e - 1) = {}

C5_RejectionChangesNothing ==
    (/\ Len(received') = Len(received) + 1
     /\ \/ received'[Len(received')].text = <<>>
        \/ received'[Len(received')].text = last_final_transcript)
    => UNCHANGED << accumulated_text, current_sentence_id,
                    last_final_transcript, calls, pc >>

C5_EmptyOrRepeatedIsRejected ==
    []C5_Rejected /\ [][C5_RejectionChangesNothing]_vars

\* a text arrived twice in a row, on different tracks, and was notified once
C5_Witness ==
    \E e \in 2..Len(received) :
        /\ received[e].text = received[e - 1].text
        /\ received[e].text # <<>>
        /\ received[e].track # received[e - 1].track
        /\ ~received[e].accepted
        /\ Cardinality(FragmentCallsOf(e - 1)) = 1

(***************************************************************************)
(* C6: when a fragment that is one sentence-ending punctuation character   *)
(* is ingested while accumulated_text is empty, no sentence-complete       *)
(* notification is emitted and no translation is dispatched, and the       *)
(* buffer is still empty afterwards.                                       *)
(***************************************************************************)
C6_BarePunctuationIsDiscarded ==
    \A e \in 1..Len(received) :
        (/\ received[e].accepted
         /\ IsPunctuationOnly(received[e].text)
         /\ received[e].pending = <<>>)
        => /\ \A i \in CallsOf(e) :
                  ~IsCompleteCall(calls[i]) /\ ~IsDispatchCall(calls[i])
           /\ (e = Len(received) /\ Quiescent)
                  => accumulated_text = <<>> /\ current_sentence_id = None

(***************************************************************************)
(* C7: when one ingest yields n >= 1 complete sentences, they are notified *)
(* and dispatched in the order they appear in the text, each notified      *)
(* before it is dispatched; only after all n is accumulated_text set to    *)
(* the remainder, with a new current_sentence_id if the remainder is not   *)
(* empty and none otherwise; across ingests, sentences are notified and    *)
(* dispatched in the order they were detected.                             *)
(***************************************************************************)
IsSentenceCall(c) == IsCompleteCall(c) \/ IsDispatchCall(c)

SentenceCalls == SelectSeq(calls, IsSentenceCall)

SentenceCallsOf(e) ==
    LET Mine(c) == IsSentenceCall(c) /\ c.ev = e IN SelectSeq(calls, Mine)

\* what the event e is to complete, from the buffer it met
ExtractionOf(e) ==
    extract_complete_sentences(
        IF received[e].pending # <<>>
        THEN Strip(received[e].pending) \o << SPACE >> \o received[e].text
        ELSE received[e].text)

InProgress(e) == \E t \in Tracks : Ingesting(t) /\ ev[t] = e

\* notification, dispatch, notification, dispatch, ...
Alternates(sc) ==
    \A k \in 1..Len(sc) :
        IF k % 2 = 1 THEN IsCompleteCall(sc[k])
        ELSE /\ IsDispatchCall(sc[k])
             /\ sc[k].text = sc[k - 1].text
             /\ sc[k].sentence_id = sc[k - 1].sentence_id

C7_SentencesInOrder ==
    /\ \A e \in 1..Len(received) :
          LET sc == SentenceCallsOf(e)
              cs == ExtractionOf(e)[1]
          IN /\ Alternates(sc)
             /\ (cs # <<>> /\ cs[1] # PUNCTUATION_COMPLETE) =>
                   /\ Len(sc) <= 2 * Len(cs)
                   /\ \A k \in 1..Len(sc) : sc[k].text = cs[(k + 1) \div 2]
                   /\ (received[e].accepted /\ ~InProgress(e)) => Len(sc) = 2 * Len(cs)
    /\ \A i, j \in 1..Len(SentenceCalls) :
          i < j => SentenceCalls[i].ev <= SentenceCalls[j].ev
    /\ \A t \in Tracks :
          pc[t] \in {"broadcast_sentence", "translate_sentence"} =>
              accumulated_text # remaining_text[t]
    /\ (Quiescent /\ received # <<>> /\ received[Len(received)].accepted) =>
          LET ex == ExtractionOf(Len(received)) IN
          (ex[1] # <<>> /\ ex[1][1] # PUNCTUATION_COMPLETE) =>
              /\ accumulated_text = ex[2]
              /\ (ex[2] = <<>>) <=> (current_sentence_id = None)
              /\ \A i \in 1..Len(calls) : calls[i].sentence_id # current_sentence_id

(***************************************************************************)
(* C8: a sentence-complete notification carries the buffer's existing      *)
(* current_sentence_id when the ingest produced exactly one complete       *)
(* sentence and a freshly generated id per sentence otherwise; no two      *)
(* sentence-complete notifications carry the same sentence_id.             *)
(***************************************************************************)
CompleteCallsOf(e) ==
    LET Mine(c) == IsCompleteCall(c) /\ c.ev = e IN SelectSeq(calls, Mine)

C8_SentenceIds ==
    /\ \A i, j \in 1..Len(CompleteCalls) :
          i # j => CompleteCalls[i].sentence_id # CompleteCalls[j].sentence_id
    /\ \A i \in 1..Len(CompleteCalls) : CompleteCalls[i].sentence_id # None
    /\ \A e \in 1..Len(received) :
          (received[e].accepted /\ ~InProgress(e) /\ CompleteCallsOf(e) # <<>>) =>
              LET cc == CompleteCallsOf(e)
                  fragment == calls[CHOOSE i \in FragmentCallsOf(e) : TRUE]
              IN IF Len(cc) = 1
                 THEN cc[1].sentence_id = fragment.sentence_id
                 ELSE \A k \in 1..Len(cc) : cc[k].sentence_id # fragment.sentence_id

(***************************************************************************)
(* C9: accumulation is append-only and loses nothing: for a single         *)
(* transcription stream, after any sequence of ingests the words of the    *)
(* dispatched sentences, in dispatch order, followed by the words of       *)
(* accumulated_text are the words of the accepted fragments in arrival     *)
(* order, punctuation set aside.                                           *)
(***************************************************************************)
\* the words of a text: its maximal runs of characters that are neither
\* spaces nor sentence-ending punctuation
RECURSIVE WordsFrom(_, _)
WordsFrom(text, word) ==
    IF text = <<>> THEN (IF word = <<>> THEN <<>> ELSE << word >>)
    ELSE IF Head(text) = SPACE \/ Head(text) \in sentence_endings
         THEN (IF word = <<>> THEN <<>> ELSE << word >>) \o WordsFrom(Tail(text), <<>>)
         ELSE WordsFrom(Tail(text), Append(word, Head(text)))

Words(text) == WordsFrom(text, <<>>)

\* the words of the texts of the records, in order
RECURSIVE WordsOfAll(_)
WordsOfAll(records) ==
    IF records = <<>> THEN <<>>
    ELSE Words(records[1].text) \o WordsOfAll(Tail(records))

IsAccepted(r) == r.accepted

C9_NoWordLost ==
    Quiescent =>
        WordsOfAll(DispatchCalls) \o Words(accumulated_text)
            = WordsOfAll(SelectSeq(received, IsAccepted))

\* two fragments were accumulated, a third completed a sentence and left a rest
C9_Witness ==
    /\ Quiescent
    /\ Len(received) = 3
    /\ \A e \in 1..3 : received[e].accepted
    /\ Len(DispatchCalls) = 1
    /\ Len(Words(DispatchCalls[1].text)) >= 3
    /\ accumulated_text # <<>>

(***************************************************************************)
(* C10: every accepted fragment produces exactly one fragment-level        *)
(* notification carrying its own text, the current sentence id,            *)
(* is_complete = false and is_fragment = true; these notifications are     *)
(* emitted in the order the fragments arrived and before any               *)
(* sentence-complete notification caused by the same fragment.             *)
(***************************************************************************)
C10_FragmentNotifications ==
    /\ \A e \in 1..Len(received) :
          /\ Cardinality(FragmentCallsOf(e)) <= 1
          /\ ~received[e].accepted => FragmentCallsOf(e) = {}
          /\ (received[e].accepted /\ ~InProgress(e)) => FragmentCallsOf(e) # {}
          /\ \A i \in FragmentCallsOf(e) :
                /\ calls[i].text = received[e].text
                /\ calls[i].sentence_id # None
                /\ calls[i].is_fragment /\ ~calls[i].is_complete
                /\ \A j \in CallsOf(e) : IsCompleteCall(calls[j]) => i < j
          /\ \A i \in CallsOf(e) : IsCompleteCall(calls[i]) => FragmentCallsOf(e) # {}
    /\ \A t \in Tracks :
          pc[t] = "broadcast_fragment" =>
              \A i \in FragmentCallsOf(ev[t]) : calls[i].sentence_id = current_sentence_id
    /\ \A i, j \in 1..Len(FragmentCalls) :
          i < j => FragmentCalls[i].ev < FragmentCalls[j].ev

(***************************************************************************)
(* C11: in every state reached by a sequence of translate calls on one     *)
(* translator, whether they succeed, fail, return nothing or are           *)
(* cancelled, the length of its message_history is even and at most twice  *)
(* its max_context_pairs.                                                  *)
(***************************************************************************)
C11_HistoryEvenAndBounded ==
    \A l \in Languages :
        /\ Len(message_history[l]) % 2 = 0
        /\ Len(message_history[l]) <= 2 * context_pairs[l]

\* the history is full and has evicted a pair, an attempt has failed, and the
\* call under way was cancelled after it had appended its pair
C11_Witness ==
    \E l \in translators :
        /\ Len(message_history[l]) = 2 * context_pairs[l]
        /\ translation_count[l] > context_pairs[l]
        /\ error_count[l] > 0
        /\ tr[1][l].st = "cancelled"
        /\ tr[1][l].published = 1

(***************************************************************************)
(* C12: under any interleaving of concurrent translate calls on one        *)
(* translator its history stays pair-aligned: the entries alternate user,  *)
(* assistant, starting with a user entry, every user entry is directly     *)
(* followed by the assistant entry of the same call (the translation of    *)
(* that very message), and eviction removes the oldest pair as a whole, so *)
(* that no state holds half of a pair.                                     *)
(***************************************************************************)
PairAligned(l, history) ==
    /\ Len(history) % 2 = 0
    /\ \A i \in 1..Len(history) :
           IF i % 2 = 1
           THEN /\ history[i].role = "user"
                /\ history[i + 1].content = Translation(l, history[i].content)
           ELSE history[i].role = "assistant"

C12_HistoryPairAligned ==
    \A l \in Languages : PairAligned(l, message_history[l])

\* two calls with different messages were in flight on the translator at the
\* same time, both have appended their pair, and the oldest pair was evicted
C12_Witness ==
    \E l \in translators :
        /\ Len(message_history[l]) = 2 * context_pairs[l]
        /\ translation_count[l] >= context_pairs[l]
        /\ tr[1][l].st = "publish" /\ tr[2][l].st = "publish"
        /\ tr[1][l].message # tr[2][l].message

(***************************************************************************)
(* C13: one translate call invokes the provider at most 1 + max_retries    *)
(* times and always terminates; after its n-th failed attempt, n <=        *)
(* max_retries, it waits n * 0.5 seconds before the next attempt, and it   *)
(* does not wait after the final failed attempt.                           *)
(***************************************************************************)
\* the provider calls a translate call has made so far
ProviderCalls(call) ==
    Len(call.outcomes) + (IF call.st = "call" THEN 1 ELSE 0)

RetryDiscipline(call) ==
    LET n == Len(call.outcomes) IN
    /\ ProviderCalls(call) <= 1 + max_retries
    /\ call.st = "sleep" =>
          /\ n \in 1..max_retries
          /\ call.outcomes[n] = "error"
          /\ call.wait_time = n * half_second
    \* an attempt that follows a failure was preceded by the wait
    /\ call.st = "call" => call.wait_time = n * half_second
    \* the last wait of a call that failed every attempt is the one before
    \* its final attempt, and the call is over
    /\ (n = 1 + max_retries /\ call.outcomes[n] = "error") =>
          /\ call.st \in {"done", "cancelled"}
          /\ call.wait_time = max_retries * half_second

Exhausted(call) ==
    /\ Len(call.outcomes) = 1 + max_retries
    /\ \A i \in 1..Len(call.outcomes) : call.outcomes[i] = "error"

ExhaustedReturnsEmpty ==
    \A t \in Tracks, l \in Languages :
        Exhausted(tr[t][l]) => tr[t][l].st = "done" /\ tr[t][l].result = <<>>

\* a step that calls translate_sentences for a sentence comes right after the
\* notification of that sentence and starts a translate call of every
\* translator, whatever its error_count
DispatchReachesEveryTranslator ==
    LET n == Len(calls') IN
    (Len(calls') = Len(calls) + 1 /\ IsDispatchCall(calls'[n])
        /\ Strip(calls'[n].text) # <<>>) =>
        /\ n > 1
        /\ IsCompleteCall(calls'[n - 1])
        /\ calls'[n - 1].text = calls'[n].text
        /\ calls'[n - 1].sentence_id = calls'[n].sentence_id
        /\ \A l \in translators :
               /\ tr'[calls'[n].track][l].st = "start"
               /\ tr'[calls'[n].track][l].message = calls'[n].text

Failing(call) ==
    /\ call.st \in {"call", "sleep", "done"}
    /\ \A i \in 1..Len(call.outcomes) : call.outcomes[i] = "error"

C15_WorkerDoesNotWaitForFailingWorker ==
    \A c \in Tracks, a \in Languages, b \in Languages :
        (a # b /\ Failing(tr[c][a])) =>
            /\ tr[c][b].st = "call" => ENABLED ProviderReturnsText(c, b)
            /\ tr[c][b].st = "publish" => ENABLED PublishTranslationReturns(c, b)
            /\ (tr[c][b].st = "done" /\ tr[c][b].outcomes = << "text" >>) =>
                  /\ tr[c][b].result = Translation(b, tr[c][b].message)
                  /\ tr[c][b].result # <<>>
                  /\ tr[c][b].broadcasts = 1

\* B has returned its translation and it was broadcast while A, which has
\* failed twice, waits for its last attempt
C15_Witness ==
    \E c \in Tracks, a \in Languages, b \in Languages :
        /\ a # b
        /\ tr[c][a].st = "sleep"
        /\ tr[c][a].outcomes = << "error", "error" >>
        /\ tr[c][a].message = tr[c][b].message
        /\ tr[c][b].st = "done"
        /\ tr[c][b].result = Translation(b, tr[c][b].message)
        /\ \E i \in 1..Len(calls) :
               /\ calls[i].message_type = "translation"
               /\ calls[i].lang = b
               /\ calls[i].text = tr[c][b].result

(***************************************************************************)
(* C16: a translate call whose provider yields a non-empty output on       *)
(* attempt k <= 1 + max_retries, after k - 1 failed attempts, appends      *)
(* exactly one (user, text), (assistant, output) pair to the history,      *)
(* increases translation_count by exactly one, publishes once to the room, *)
(* broadcasts once to the displays and returns the output; none of these   *)
(* effects happens twice for one call.                                     *)
(***************************************************************************)
\* the provider has returned a text to the call in this step
GainsText(t, l) == tr[t][l].st = "call" /\ tr'[t][l].st = "publish"

\* the call returns its translation in this step
ReturnsTranslation(t, l) == tr[t][l].st = "publish" /\ tr'[t][l].st = "done"

NumberOf(outcome, outcomes) ==
    Cardinality({ i \in 1..Len(outcomes) : outcomes[i] = outcome })

SuccessEffectsOnce ==
    \A t \in Tracks, l \in Languages :
        LET call == tr[t][l] IN
        /\ NumberOf("text", call.outcomes) <= 1
        /\ call.published = NumberOf("text", call.outcomes)
        /\ call.broadcasts <= call.published
        /\ Len(call.outcomes) <= 1 + max_retries
        /\ (call.st = "done" /\ NumberOf("text", call.outcomes) = 1) =>
              /\ call.outcomes[Len(call.outcomes)] = "text"
              /\ call.broadcasts = 1
              /\ call.result = Translation(l, call.message)

SuccessEffects ==
    \A l \in Languages :
        /\ \A t \in Tracks :
              /\ GainsText(t, l) =>
                    /\ message_history'[l] =
                           message_history[l] \o
                           << [role |-> "user", content |-> tr[t][l].message],
                              [role |-> "assistant",
                               content |-> Translation(l, tr[t][l].message)] >>
                    /\ translation_count'[l] = translation_count[l]
                    /\ calls' = calls
              /\ ReturnsTranslation(t, l) =>
                    /\ translation_count'[l] = translation_count[l] + 1
                    /\ message_history'[l] = message_history[l]
                    /\ calls' = Append(calls,
                           TranslationCall(t, l, Translation(l, tr[t][l].message),
                                           tr[t][l].sentence_id))
        /\ (\A t \in Tracks : ~GainsText(t, l)) =>
              message_history'[l] = message_history[l]
        /\ (\A t \in Tracks : ~ReturnsTranslation(t, l)) =>
              /\ translation_count'[l] = translation_count[l]
              /\ SelectSeq(calls', LAMBDA c : c.message_type = "translation" /\ c.lang = l)
                   = SelectSeq(calls, LAMBDA c : c.message_type = "translation" /\ c.lang = l)

C16_SuccessHasItsEffectsOnce ==
    /\ []SuccessEffectsOnce
    /\ [][SuccessEffects]_vars

\* a call has returned the translation it got on its third attempt
C16_Witness ==
    \E l \in translators :
        /\ tr[1][l].st = "done"
        /\ tr[1][l].outcomes = << "error", "error", "text" >>
        /\ tr[1][l].result = Translation(l, tr[1][l].message)
        /\ Len(message_history[l]) = 2
        /\ translation_count[l] = 1

(***************************************************************************)
(* C17: error_count increases by exactly one for a translate call that     *)
(* fails on all of its attempts, and is left unchanged by a call that      *)
(* succeeds, also by one that succeeds after one or more failed attempts:  *)
(* error_count changes only in the step in which a call fails its last     *)
(* attempt, and then by one.                                               *)
(***************************************************************************)
\* the call fails its last attempt in this step
FailsForGood(t, l) == ~Exhausted(tr[t][l]) /\ Exhausted(tr'[t][l])

ErrorCountedPerFailedCall ==
    \A l \in Languages :
        /\ \A t \in Tracks :
               FailsForGood(t, l) => error_count'[l] = error_count[l] + 1
        /\ error_count'[l] # error_count[l] => \E t \in Tracks : FailsForGood(t, l)

C17_ErrorCountPerFailedCall == [][ErrorCountedPerFailedCall]_vars

(***************************************************************************)
(* C18: when the provider call completes without error but with an empty   *)
(* output, translate returns the empty string at once: it does not retry,  *)
(* publish or broadcast, and it changes neither the history nor            *)
(* translation_count nor error_count.                                      *)
(***************************************************************************)
\* the provider returns an empty output to the call in this step
GainsEmpty(t, l) ==
    /\ tr[t][l].st = "call"
    /\ Len(tr'[t][l].outcomes) = Len(tr[t][l].outcomes) + 1
    /\ tr'[t][l].outcomes[Len(tr'[t][l].outcomes)] = "empty"

EmptyOutputIsSoftNoOp ==
    \A t \in Tracks, l \in Languages :
        GainsEmpty(t, l) =>
            /\ tr'[t][l].st = "done"
            /\ tr'[t][l].result = <<>>
            /\ tr'[t][l].published = tr[t][l].published
            /\ tr'[t][l].broadcasts = tr[t][l].broadcasts
            /\ tr'[t][l].retry_count = tr[t][l].retry_count
            /\ message_history' = message_history
            /\ translation_count' = translation_count
            /\ error_count' = error_count
            /\ calls' = calls

\* a call that got an empty output has made no provider call after it and
\* has published and broadcast nothing
EmptyOutputEndsCall ==
    \A t \in Tracks, l \in Languages :
        LET call == tr[t][l] IN
        (\E i \in 1..Len(call.outcomes) : call.outcomes[i] = "empty") =>
            /\ call.outcomes[Len(call.outcomes)] = "empty"
            /\ NumberOf("empty", call.outcomes) = 1
            /\ call.st = "done"
            /\ call.result = <<>>
            /\ call.published = 0
            /\ call.broadcasts = 0

C18_EmptyOutputReturnsAtOnce ==
    /\ []EmptyOutputEndsCall
    /\ [][EmptyOutputIsSoftNoOp]_vars

\* after a successful call, a call has got an empty output on its first
\* attempt and has returned
C18_Witness ==
    \E l \in translators :
        /\ tr[1][l].st = "done"
        /\ tr[1][l].outcomes = << "empty" >>
        /\ tr[1][l].result = <<>>
        /\ Len(message_history[l]) = 2
        /\ translation_count[l] = 1
        /\ error_count[l] = 0

(***************************************************************************)
(* C19: the history of a translator changes only by the append of one      *)
(* complete pair, on a provider call that returned a non-empty output:     *)
(* building the request, a failed attempt, an empty result, the return of  *)
(* the guard for an empty text and a cancelled call leave it unchanged.    *)
(***************************************************************************)
\* new is old with the pair of the call appended, the oldest entries dropped
\* at the bound
PairAppended(old, new, l, call) ==
    LET h == old \o << [role |-> "user", content |-> call.message],
                        [role |-> "assistant",
                         content |-> Translation(l, call.message)] >>
    IN /\ Len(new) >= 2
       /\ Len(new) <= Len(h)
       /\ new = SubSeq(h, Len(h) - Len(new) + 1, Len(h))
       /\ Len(new) = Len(h) \/ Len(new) = 2 * context_pairs[l]

\* steps of a call other than the return of a text by the provider
BuildsRequest(t, l) == tr[t][l].st \in {"start", "prompt", "sleep"} /\ tr'[t][l].st = "call"
AttemptFails(t, l) ==
    /\ tr[t][l].st = "call"
    /\ Len(tr'[t][l].outcomes) = Len(tr[t][l].outcomes) + 1
    /\ tr'[t][l].outcomes[Len(tr'[t][l].outcomes)] = "error"
GuardReturns(t, l) ==
    tr[t][l].st = "none" /\ tr'[t][l].st = "done" /\ Strip(tr'[t][l].message) = <<>>
IsCancelled(t, l) == tr[t][l].st # "cancelled" /\ tr'[t][l].st = "cancelled"

HistoryChangesByPairOnly ==
    \A l \in Languages :
        /\ message_history'[l] # message_history[l] =>
              \E t \in Tracks :
                  /\ GainsText(t, l)
                  /\ PairAppended(message_history[l], message_history'[l], l, tr[t][l])
        /\ \A t \in Tracks :
              (\/ BuildsRequest(t, l) \/ AttemptFails(t, l) \/ GainsEmpty(t, l)
               \/ GuardReturns(t, l) \/ IsCancelled(t, l)) =>
                  message_history'[l] = message_history[l]

C19_HistoryChangesByPairOnly == [][HistoryChangesByPairOnly]_vars

\* the history holds the pair of an earlier call, unchanged by a call that
\* failed an attempt and was then cancelled
C19_Witness ==
    \E l \in translators :
        /\ tr[1][l].st = "cancelled"
        /\ tr[1][l].outcomes = << "error" >>
        /\ Len(message_history[l]) = 2
        /\ message_history[l][1].content # tr[1][l].message
        /\ translation_count[l] = 1

(***************************************************************************)
(* C20: a translator resolves its system prompt at most once in its        *)
(* lifetime, on the first translate call that reaches the provider; every  *)
(* later attempt and call, also after the tenant context was updated, uses *)
(* the cached prompt, and no provider call is made with an unresolved      *)
(* prompt.                                                                 *)
(***************************************************************************)
C20_PromptResolvedOnce ==
    \A l \in Languages :
        /\ prompt_resolutions[l] <= 1
        /\ prompt_initialized[l] <=> prompt_resolutions[l] = 1
        /\ \A t \in Tracks :
               tr[t][l].st = "call" =>
                   /\ prompt_initialized[l]
                   /\ system_prompt[l] # None
                   /\ tr[t][l].system_prompt = system_prompt[l]

(***************************************************************************)
(* C21: every provider stream opened by a translation attempt is closed    *)
(* before the attempt finishes, on every exit path (full output, empty     *)
(* output, an exception while the chunks are read, cancellation): a        *)
(* translate call that is not inside an attempt, and so every call that    *)
(* has ended, holds no open stream.                                        *)
(***************************************************************************)
InAttempt(call) == call.st \in {"call", "closing"}

C21_StreamClosedOnEveryExit ==
    \A t \in Tracks, l \in Languages :
        /\ tr[t][l].open_streams \in 0..1
        /\ ~InAttempt(tr[t][l]) => tr[t][l].open_streams = 0

(***************************************************************************)
(* C22: when a participant disconnects or the room session ends, every     *)
(* in-flight translation dispatch and every pending retry of the room is   *)
(* cancelled: afterwards they make no provider call, no broadcast and no   *)
(* history append, and the history of each worker is left as of its last   *)
(* fully appended user/assistant pair.                                     *)
(***************************************************************************)
SessionOver(t) == shutdown \/ participant_tasks[t] \in {"cancelled", "done"}

NoWorkAfterSessionOver ==
    \A t \in Tracks :
        SessionOver(t) =>
            /\ \A l \in Languages :
                   tr'[t][l].st = "call" => tr[t][l].st = "call"
            /\ \A i \in (Len(calls) + 1)..Len(calls') :
                   calls'[i].track = t => calls'[i].message_type # "translation"
            /\ \A l \in Languages :
                   message_history'[l] # message_history[l] => tr[t][l].st # "call"

C22_SessionEndCancelsDispatches ==
    /\ [][NoWorkAfterSessionOver]_vars
    /\ [](\A l \in Languages : PairAligned(l, message_history[l]))

(***************************************************************************)
(* C23: translation completions of different sentences are unordered:     *)
(* a translate call for a sentence that was dispatched later completes and *)
(* its translation is delivered while the translate call for a sentence    *)
(* dispatched earlier is still retrying (C23_Witness). The two sentences   *)
(* are those of different transcription streams: a stream dispatches a     *)
(* sentence only when no translate call of its previous dispatch is under  *)
(* way.                                                                    *)
(***************************************************************************)
StartsGather(t) ==
    \E l \in Languages : tr[t][l].st # "start" /\ tr'[t][l].st = "start"

DispatchFollowsCompletion ==
    \A t \in Tracks : StartsGather(t) => \A l \in Languages : ~InFlight(t, l)

DispatchOf(t, l) ==
    { i \in 1..Len(calls) :
        /\ calls[i].fn = "translate_sentences"
        /\ calls[i].track = t
        /\ calls[i].text = tr[t][l].message
        /\ calls[i].sentence_id = tr[t][l].sentence_id }

\* the positions in calls of the delivery of the translation that the
\* translate call of track t to language l has returned
DeliveryOf(t, l) ==
    { i \in 1..Len(calls) :
        /\ calls[i].message_type = "translation"
        /\ calls[i].track = t
        /\ calls[i].lang = l
        /\ calls[i].text = tr[t][l].result
        /\ calls[i].sentence_id = tr[t][l].sentence_id }

OneWorkerPerLanguage ==
    \A l \in Languages : constructed[l] = IF l \in translators THEN 1 ELSE 0

WorkerMapGrows ==
    /\ translators \subseteq translators'
    /\ \A l \in translators :
           /\ constructed'[l] = constructed[l]
           /\ Len(message_history'[l]) >= Len(message_history[l])
           /\ translation_count'[l] >= translation_count[l]
           /\ error_count'[l] >= error_count[l]
           /\ prompt_initialized[l] => prompt_initialized'[l]
    /\ \A l \in translators' \ translators :
           /\ l = changed_attributes'.captions_language
           /\ l # source_language'
           /\ l \in Languages
           /\ translators' = translators \cup { l }

C24_WorkerMapOnlyGrows == []OneWorkerPerLanguage /\ [][WorkerMapGrows]_vars

\* captions were last asked for in a language whose worker has translated a
\* sentence: the worker is the one that was constructed first, with its
\* history and its count
C24_Witness ==
    LET l == changed_attributes.captions_language IN
    /\ l \in translators
    /\ constructed[l] = 1
    /\ translation_count[l] = 1
    /\ Len(message_history[l]) = 2
    /\ \A c \in Tracks : \A k \in Languages : tr[c][k].st = "none"

(***************************************************************************)
(* C25: a failure of the room publish, or of the display broadcast or      *)
(* storage, for a translated sentence does not change the outcome of the   *)
(* translate call: the call returns the translation, translation_count is  *)
(* incremented, error_count and the history are as on a fully successful   *)
(* call, no retry is triggered, and the next sentence is processed.        *)
(***************************************************************************)
PublishEnds(t, l) == tr[t][l].st = "publish" /\ tr'[t][l].st # "publish"

SinkFailureKeepsOutcome ==
    /\ \A t \in Tracks, l \in Languages :
           PublishEnds(t, l) =>
               /\ tr'[t][l].st = "done"
               /\ tr'[t][l].result = Translation(l, tr[t][l].message)
               /\ tr'[t][l].retry_count = tr[t][l].retry_count
               /\ tr'[t][l].outcomes = tr[t][l].outcomes
               /\ translation_count'[l] = translation_count[l] + 1
               /\ error_count' = error_count
               /\ message_history' = message_history
    /\ displays' # displays =>
           UNCHANGED << tr, pc, message_history, translation_count, error_count >>

C25_SinkFailureKeepsOutcome == [][SinkFailureKeepsOutcome]_vars

\* the broadcast and the storage of the first translation have failed, the
\* room publish of the second translation has failed, and both sentences
\* were translated, counted and recorded without an error
C25_Witness ==
    \E l \in translators :
        /\ tr[1][l].st = "done"
        /\ tr[1][l].publish_failures = 1
        /\ tr[1][l].result # <<>>
        /\ translation_count[l] = 2
        /\ error_count[l] = 0
        /\ Len(message_history[l]) = 4
        /\ Len(displays) >= 1
        /\ displays[1].returned = "False"
        /\ displays[1].storage = "False"

(***************************************************************************)
(* C26: prompt resolution never leaves the worker without a prompt, and    *)
(* when the template of the tenant cannot be fetched, is missing or is     *)
(* malformed (unknown placeholder or bad format string), the worker ends   *)
(* up with the default template filled with the name of the source         *)
(* language and the name of the target language.                           *)
(***************************************************************************)
\* the database has no usable template for the room
NoRoomTemplate == tenant_context.room_id = None \/ prompt_template # "ok"

\* the room has no prompt of its own that can be filled
NoDirectPrompt ==
    ~tenant_context.translation_prompt \/ tenant_context.prompt_form # "ok"

C26_ResolutionFallsBackToDefault ==
    \A l \in Languages :
        prompt_initialized[l] =>
            /\ prompt_text[l] # NoPrompt
            /\ (NoDirectPrompt /\ NoRoomTemplate) =>
                   prompt_text[l] = DefaultPrompt(l)

(***************************************************************************)
(* C27: the sink functions never raise to their caller:                    *)
(* store_transcript_in_database and broadcast_to_channel return False on   *)
(* a missing key, a missing room context, a timeout, a non-success status  *)
(* or any exception; broadcast_to_displays still attempts the storage when *)
(* the broadcast has failed, and attempts neither broadcast nor storage    *)
(* when the text is empty or room_id or mosque_id is missing.              *)
(***************************************************************************)
ChannelFails(d) == ~service_role_key \/ d.channel # "200"

StoreFails(d) ==
    \/ ~service_role_key
    \/ ~HasRoom(d.context)
    \/ d.context.session_id = None /\ d.session = None
    \/ d.store \notin { "200", "201" }

SinkNeverRaises(d) ==
    /\ d.returned \in SinkResults \ { "raised" }
    /\ d.broadcast \in (SinkResults \ { "raised" }) \cup { "none" }
    /\ d.storage \in (SinkResults \ { "raised" }) \cup { "none" }
    /\ d.broadcast # "none" => (d.broadcast = "False" <=> ChannelFails(d))
    /\ d.storage # "none" => (d.storage = "False" <=> StoreFails(d))
    /\ d.fn = "broadcast_to_channel" => d.broadcast # "none"
    /\ d.fn = "store_transcript_in_database" => d.storage # "none"
    /\ d.fn = "broadcast_to_displays" =>
           IF HasText(d.text) /\ HasRoom(d.context)
           THEN d.broadcast # "none" /\ d.storage # "none"
                /\ d.returned = d.broadcast
           ELSE d.broadcast = "none" /\ d.storage = "none"
                /\ d.returned = "False"

C27_SinksNeverRaise == \A i \in 1..Len(displays) : SinkNeverRaises(displays[i])

\* broadcast_to_displays has attempted the storage, which succeeded, after a
\* broadcast that timed out, and has attempted nothing for a blank text
C27_Witness ==
    /\ Len(displays) = 2
    /\ displays[1].fn = "broadcast_to_displays"
    /\ displays[1].channel = "timeout"
    /\ displays[1].broadcast = "False"
    /\ displays[1].returned = "False"
    /\ displays[1].storage = "True"
    /\ displays[2].fn = "broadcast_to_displays"
    /\ ~HasText(displays[2].text)
    /\ displays[2].broadcast = "none"
    /\ displays[2].storage = "none"
(***************************************************************************)
(* C28: for every tenant configuration, the number of context pairs a      *)
(* translator is constructed with lies in 3..20: a configured value below  *)
(* 3 gives 3, one above 20 gives 20, an absent value gives the default. It *)
(* is fixed at construction, and the bound of the history is twice that    *)
(* number for the whole life of the translator.                            *)
(***************************************************************************)
\* the number of pairs the configuration of the room stands for
ConfiguredPairs(n) ==
    /\ n \in min_context_pairs..largest_context_pairs
    /\ tenant_context.has_context_window_size
           /\ tenant_context.context_window_size < min_context_pairs
           => n = min_context_pairs
    /\ tenant_context.has_context_window_size
           /\ tenant_context.context_window_size > largest_context_pairs
           => n = largest_context_pairs
    /\ ~tenant_context.has_context_window_size => n = max_context_pairs

ContextPairsConfigured ==
    \A l \in translators :
        /\ ConfiguredPairs(context_pairs[l])
        /\ Len(message_history[l]) <= 2 * context_pairs[l]

ContextPairsFixed ==
    \A l \in translators : context_pairs'[l] = context_pairs[l]

C28_ContextPairsClampedAndFixed ==
    []ContextPairsConfigured /\ [][ContextPairsFixed]_vars

(***************************************************************************)
(* C29: extract_complete_sentences applied to a text that, after trimming, *)
(* is exactly one of the four sentence-ending punctuation characters       *)
(* returns the list holding only the completion marker, and an empty       *)
(* remainder; applied to any other text it never returns the marker.       *)
(***************************************************************************)
StandalonePunctuation(text) == \E p \in sentence_endings : Strip(text) = << p >>

C29_MarkerOnlyForStandalonePunctuation ==
    extracted.called =>
        IF StandalonePunctuation(extracted.text)
        THEN /\ extracted.complete_sentences = << PUNCTUATION_COMPLETE >>
             /\ extracted.remaining_text = <<>>
        ELSE \A i \in 1..Len(extracted.complete_sentences) :
                 extracted.complete_sentences[i] # PUNCTUATION_COMPLETE

\* the call has returned the marker for a question mark between spaces
C29_Witness ==
    /\ extracted.called
    /\ extracted.text = << SPACE, ArabicQuestionMark, SPACE >>
    /\ extracted.complete_sentences = << PUNCTUATION_COMPLETE >>

(***************************************************************************)
(* C30: for a text made of k >= 1 well-formed sentences (a non-empty text  *)
(* without punctuation followed by one sentence-ending character) and no   *)
(* trailing fragment, extract_complete_sentences returns those k           *)
(* sentences, in their order, and an empty remainder; for a text s without *)
(* punctuation it returns no sentence and the trimmed s as remainder.      *)
(***************************************************************************)
\* every punctuation character ends a non-empty text without punctuation,
\* and nothing follows the last one
WellFormedSentences(text) ==
    /\ text # <<>>
    /\ text[Len(text)] \in sentence_endings
    /\ text[1] \notin sentence_endings
    /\ \A i \in 1..(Len(text) - 1) :
           text[i] \in sentence_endings => text[i + 1] \notin sentence_endings

\* the sentences of a well-formed text, each without the spaces around it
RECURSIVE SentencesFrom(_, _)
SentencesFrom(text, words) ==
    IF text = <<>> THEN <<>>
    ELSE IF Head(text) \in sentence_endings
         THEN << Strip(words) \o << Head(text) >> >> \o SentencesFrom(Tail(text), <<>>)
         ELSE SentencesFrom(Tail(text), Append(words, Head(text)))

SentencesOf(text) == SentencesFrom(text, <<>>)

\* every sentence of the text has a character that is not a space
SentencesHaveWords(text) ==
    \A i \in 1..Len(SentencesOf(text)) : Len(SentencesOf(text)[i]) > 1

NoPunctuationNoSentence ==
    PunctuationFree(extracted.text) =>
        /\ extracted.complete_sentences = <<>>
        /\ extracted.remaining_text = Strip(extracted.text)

\* the statement as it stands: every well-formed text comes back as its
\* sentences
C30_RoundTripOfWellFormedSentences ==
    extracted.called =>
        /\ WellFormedSentences(extracted.text) =>
               /\ extracted.complete_sentences = SentencesOf(extracted.text)
               /\ extracted.remaining_text = <<>>
        /\ NoPunctuationNoSentence

\* C30, amended: the round trip holds for the well-formed texts whose
\* sentences all have a character that is not a space, and the sentences
\* come back without the spaces around them
C30_RoundTripOfSentencesWithWords ==
    extracted.called =>
        /\ WellFormedSentences(extracted.text) /\ SentencesHaveWords(extracted.text) =>
               /\ extracted.complete_sentences = SentencesOf(extracted.text)
               /\ extracted.remaining_text = <<>>
        /\ NoPunctuationNoSentence

\* two sentences, the second after a space, have come back in their order
C30_Witness ==
    /\ extracted.called
    /\ extracted.text = << "a", ".", SPACE, "a", "!" >>
    /\ extracted.complete_sentences = << << "a", "." >>, << "a", "!" >> >>
    /\ extracted.remaining_text = <<>>

(***************************************************************************)
(* C31: every translation event broadcast for a sentence carries the       *)
(* sentence_id of the sentence-complete transcription notification of the  *)
(* sentence it translates, with is_complete true and is_fragment false,    *)
(* and for each pair of a sentence_id and a target language at most one    *)
(* translation event is emitted.                                           *)
(***************************************************************************)
IsTranslationEvent(c) == c.message_type = "translation"

\* the sentence-complete notification before calls[i] that has the
\* sentence_id of calls[i] and the text calls[i] translates
NotifiedAsComplete(i) ==
    \E j \in 1..(i - 1) :
        /\ IsCompleteCall(calls[j])
        /\ calls[j].sentence_id = calls[i].sentence_id
        /\ calls[i].text = Translation(calls[i].lang, calls[j].text)

C31_TranslationEventsCorrelate ==
    \A i \in 1..Len(calls) :
        IsTranslationEvent(calls[i]) =>
            /\ calls[i].sentence_id # None
            /\ calls[i].is_complete
            /\ ~calls[i].is_fragment
            /\ NotifiedAsComplete(i)
            /\ \A k \in 1..Len(calls) :
                   (/\ k # i
                    /\ IsTranslationEvent(calls[k])
                    /\ calls[k].lang = calls[i].lang)
                       => calls[k].sentence_id # calls[i].sentence_id

(***************************************************************************)
(* C32: ensure_active_session creates a session row only when the room has *)
(* no active session: for a room without a session_id in its context, any  *)
(* number of store_transcript_in_database calls running at the same time   *)
(* and any outcome of the check for an existing session lead to at most    *)
(* one active session created for the room, and all transcripts are stored *)
(* under that one session id.                                              *)
(***************************************************************************)
\* the sessions the calls have created
CreatedSessions == room_sessions \ { ExistingSession }

C32_AtMostOneSessionCreated ==
    /\ Cardinality(CreatedSessions) <= 1
    /\ ExistingSession \in room_sessions => CreatedSessions = {}
    /\ Cardinality(room_sessions) <= 1
    /\ \A i, j \in 1..Len(transcripts) : transcripts[i] = transcripts[j]

(***************************************************************************)
(* C33: when the speaking_language attribute of a participant changes to a *)
(* supported language code that differs from the source language, the      *)
(* handler completes and the source language of the room becomes that      *)
(* code, so that every later fragment and sentence-complete notification   *)
(* carries the new code; a request that names the current source language  *)
(* changes nothing.                                                        *)
(***************************************************************************)
\* the handler ran with new attributes in this step
AttributesChange == changed_attributes' # changed_attributes

SpeakingLanguageBecomesSource ==
    AttributesChange =>
        LET speaking_lang == changed_attributes'.speaking_language IN
        /\ (speaking_lang \in Languages /\ speaking_lang # source_language) =>
               source_language' = speaking_lang
        /\ speaking_lang = source_language =>
               /\ source_language' = source_language
               /\ translators' = translators

\* a notification to the displays carries the source language of the room
NotifiedInSourceLanguage ==
    \A i \in (Len(calls) + 1)..Len(calls') :
        calls'[i].message_type = "transcription" => calls'[i].lang = source_language

C33_SpeakingLanguageBecomesSource ==
    [][SpeakingLanguageBecomesSource /\ NotifiedInSourceLanguage]_vars

(***************************************************************************)
(* C34: when create_stream is called for a participant that has an open    *)
(* STT stream, the manager closes and deregisters that stream and then     *)
(* opens the new one, without waiting for the holder of the first stream   *)
(* to finish on its own; at no time are two STT streams registered as open *)
(* for the same participant.                                               *)
(***************************************************************************)
\* the call uses the stream it was yielded
HoldsStream(h) == stream_calls[h].kind = "create" /\ stream_calls[h].st = "open"

\* the call of create_stream waits for a lock whose owner uses its stream
WaitsForHolder(h) ==
    /\ stream_calls[h].kind = "create"
    /\ stream_calls[h].st = "lock"
    /\ \E g \in StreamCalls :
           /\ locks[stream_calls[h].lock].owner = g
           /\ HoldsStream(g)

C34_NewStreamReplacesOpenStream ==
    /\ \A h \in StreamCalls : ~WaitsForHolder(h)
    /\ Cardinality(streams) <= 1

(***************************************************************************)
(* C35: after ResourceManager.shutdown() has completed, on a room          *)
(* disconnect or on the frontend's cleanup request, also when both run and *)
(* shutdown is called twice, verify_cleanup_complete reports               *)
(* cleanup_complete: no tracked task is active, no STT stream is           *)
(* registered, no participant remains in the heartbeat monitor; and        *)
(* create_task raises.                                                     *)
(***************************************************************************)
\* perform_graceful_cleanup verifies in the step in which its shutdown
\* returns (main.py 768-771)
GracefulCleanupVerifies(c) ==
    /\ shutdown_calls'[c].caller = "perform_graceful_cleanup"
    /\ ~Completed(shutdown_calls, close_all_calls, c)
    /\ Completed(shutdown_calls', close_all_calls', c)

\* the verification finds no task, no stream and no participant
NothingRemains(verification) ==
    /\ verification.tasks_remaining = {}
    /\ verification.streams_remaining = {}
    /\ verification.participants_remaining = {}

VerifiedComplete ==
    \A c \in ShutdownCalls :
        /\ GracefulCleanupVerifies(c) =>
               NothingRemains(verify_cleanup_complete(
                   { h \in StreamCalls : tasks'[h].st # "none"
                                          /\ stream_calls'[h].st # "done" },
                   streams', participants', pool_session' # "open"))
        /\ NothingRemains(shutdown_calls'[c].verification)
        /\ Completed(shutdown_calls', close_all_calls', c) => shutdown'

C35_CleanupCompleteAfterShutdown == [][VerifiedComplete]_vars

(***************************************************************************)
(* C36: every sentence_id that a fragment notification carried is later    *)
(* carried by exactly one sentence-complete notification: whenever the     *)
(* buffer is empty after an ingest, each sentence_id that appeared on a    *)
(* fragment notification has appeared on exactly one sentence-complete     *)
(* notification, including when a single fragment completes two or more    *)
(* sentences.                                                              *)
(***************************************************************************)
\* the sentence-complete notifications that carry the sentence id
CompletionsOf(id) ==
    { j \in 1..Len(calls) : /\ IsCompleteCall(calls[j])
                            /\ calls[j].sentence_id = id }

C36_FragmentIdsCompletedOnce ==
    (Quiescent /\ accumulated_text = <<>>) =>
        \A i \in 1..Len(calls) :
            IsFragmentCall(calls[i]) =>
                Cardinality(CompletionsOf(calls[i].sentence_id)) = 1

(***************************************************************************)
(* C37: for every input text, each complete sentence returned by           *)
(* extract_complete_sentences, other than the completion marker, is a      *)
(* non-empty punctuation-free text followed by exactly one sentence-ending *)
(* punctuation character, the remainder contains no sentence-ending        *)
(* punctuation character, and a punctuation character that follows no     *)
(* text yields no sentence of its own; consequently, after any ingest that *)
(* is not rejected, accumulated_text contains no sentence-ending           *)
(* punctuation character.                                                  *)
(***************************************************************************)
\* a non-empty text without punctuation, then one punctuation character
IsSentence(sentence) ==
    /\ Len(sentence) >= 2
    /\ sentence[Len(sentence)] \in sentence_endings
    /\ PunctuationFree(SubSeq(sentence, 1, Len(sentence) - 1))

\* the punctuation characters of the text that follow a character other
\* than a space since the punctuation character before them
RECURSIVE EndingsAfterText(_, _)
EndingsAfterText(text, after_text) ==
    IF text = <<>> THEN 0
    ELSE IF Head(text) \in sentence_endings
         THEN (IF after_text THEN 1 ELSE 0) + EndingsAfterText(Tail(text), FALSE)
         ELSE EndingsAfterText(Tail(text), after_text \/ Head(text) # SPACE)

\* what the statement says of the sentences and the remainder of a text
Extracted(text, sentences, remainder) ==
    /\ PunctuationFree(remainder)
    /\ sentences # << PUNCTUATION_COMPLETE >> =>
           /\ \A i \in 1..Len(sentences) : IsSentence(sentences[i])
           /\ Len(sentences) = EndingsAfterText(text, FALSE)

ExtractedWithoutPunctuation ==
    extracted.called =>
        Extracted(extracted.text, extracted.complete_sentences,
                  extracted.remaining_text)

\* main.py 418-427: the text the ingest of event e extracts from
AccumulatedAt(e) ==
    IF received[e].pending # <<>>
    THEN Strip(received[e].pending) \o << SPACE >> \o received[e].text
    ELSE received[e].text

C37_NoPunctuationLeftPending ==
    \A e \in 1..Len(received) :
        (received[e].accepted /\ ~InProgress(e)) =>
            /\ Extracted(AccumulatedAt(e), ExtractionOf(e)[1], ExtractionOf(e)[2])
            /\ (Quiescent /\ e = Len(received)) => PunctuationFree(accumulated_text)

(***************************************************************************)
(* C38: in a running room session, a participant whose heartbeat has not   *)
(* been updated for longer than the monitor's timeout is eventually        *)
(* removed from heartbeat monitoring, and every registered timeout         *)
(* callback is invoked with that participant's id, exactly once per lapse. *)
(***************************************************************************)
\* the callback is called for a participant only as its lapsed heartbeat is
\* removed, and once
CalledOncePerLapse ==
    \A p \in { Speaker } :
        timeout_callbacks'[p] # timeout_callbacks[p] =>
            /\ p \in lapsed
            /\ p \notin participants'
            /\ timeout_callbacks'[p] = timeout_callbacks[p] + 1

\* the lapse ends: the participant is removed, or its heartbeat comes again
LapseEnds == \A p \in { Speaker } : (p \in lapsed) ~> (p \notin lapsed)

C38_LapsedParticipantRemoved == LapseEnds /\ [][CalledOncePerLapse]_vars

(***************************************************************************)
(* C39: if a participant connects with metadata that contains a session_id *)
(* while no session-heartbeat task is running, a session-heartbeat task is *)
(* started for the room; under any order of room connection and            *)
(* participant connections at most one session-heartbeat task is running,  *)
(* and it is cancelled when the room disconnects.                          *)
(***************************************************************************)
\* a participant has connected with a session_id in its metadata
ConnectedWithSession ==
    \E i \in 1..Len(participant_metadata) : participant_metadata[i] # None

\* once the room is connected, a session-heartbeat task runs for the session
\* a participant brought
HeartbeatRunsForSession ==
    (room = "connected" /\ ConnectedWithSession) => RunningHeartbeats # {}

AtMostOneHeartbeat ==
    /\ Cardinality(RunningHeartbeats) <= 1
    /\ room = "cleanup" => RunningHeartbeats = {}

C39_OneSessionHeartbeat == HeartbeatRunsForSession /\ AtMostOneHeartbeat

(***************************************************************************)
(* C40: after a room-created webhook for a room record followed by a       *)
(* room-deleted webhook for the same record, the webhook handler no longer *)
(* holds a session for that room: get_room_context(room_name) returns the  *)
(* empty context, and active_sessions has the same keys as before the      *)
(* creation.                                                               *)
(***************************************************************************)
\* the last two webhooks were the creation and the deletion of one record
CreatedThenDeleted ==
    /\ Len(webhooks) = 2
    /\ webhooks[1].kind = "room_created"
    /\ webhooks[2].kind = "room_deleted"
    /\ webhooks[1].record = webhooks[2].record

C40_DeletionUndoesCreation ==
    CreatedThenDeleted =>
        /\ get_room_context(active_sessions,
                            webhooks[1].record.Livekit_room_name) = NoContext
        /\ Keys(active_sessions) = webhooks[1].keys

====
